---- MODULE Spec2Model ----
(***************************************************************************)
(* A model of the file-level pipeline of cl_analysis:                      *)
(*   data/file_level_transformation.py  DataTransformer                    *)
(*   data/file_level_aggregation.py     DataAggregator                     *)
(* The rows of <repo>_pull_requests_signals.csv are the inputs.  A cell of *)
(* the table is either blank (pandas reads it as NaN) or holds a value.    *)
(***************************************************************************)
EXTENDS Integers, Sequences, FiniteSets, TLC

(***************************************************************************)
(* Bounds and input alphabets.                                             *)
(***************************************************************************)
\* size of the input table of the transformer: rows + list entries + blank cells
MaxSize == 5
\* length of the outcome lists handed to _count_check_run_status
MaxRuns == 4
\* size of the input table of the aggregator: rows + list entries + blank cells
\* + rows whose times are ISO strings
MaxAggSize == 5

\* the longest lookback range, in days
MaxRange == 30

\* the longest list handed to remove_nan
MaxNanLen == 5

\* the longest list of numbers handed to a reduction function
MaxListLen == 7

\* the longest list of tuples handed to a reduction function
MaxTuples == 4

\* the longest Series of pull request ids handed to compute_avg_count
MaxSeries == 5

\* the most pull requests that contribute to a row of a window table
MaxIds == 5

\* the longest list or mapping whose text is stored
MaxItems == 2

\* the rows of a pull request signals table the loader reads
MaxPrs == 3

\* the commits of a pull request
MaxCommits == 2

\* the pages and the pull requests of the pages the API holds, together
MaxListed == 4

\* the largest page a caller passes, and the calls made on a collector
MaxPage == 3

MaxCalls == 3

\* the target dates of a run of the feature extraction
MaxDates == 3

\* the runs of collect_signals on one repository
MaxCollects == 3

Files == {"a.py", "b.py"}
Msgs == {"m1", "m2"}
Versions == {1, 2}
Reviewers == {"r1", "r2"}
Authors == {"u1"}
Statuses == {"passed", "failed", "none"}
OtherStatuses == {"skipped"}
REPO_NAME == "google/jax"
None == "None"

(***************************************************************************)
(* Python values.                                                          *)
(***************************************************************************)
\* the sequences over S of length at most n
BSeq(S, n) == UNION {[1..k -> S] : k \in 0..n}

Range(s) == {s[i] : i \in DOMAIN s}

Injective(s) == \A i, j \in DOMAIN s : s[i] = s[j] => i = j

\* d[k] = v on a dict (a function whose domain is the set of keys)
DictPut(d, k, v) == [x \in (DOMAIN d) \cup {k} |-> IF x = k THEN v ELSE d[x]]

EmptyDict == [x \in {} |-> 0]

\* A table cell as pandas reads it.  typ is what the cell holds: "num" a
\* number, "text" a string that is no Python literal (a login, an ISO date),
\* "literal" the text of a Python list or dict, val being the value the
\* text denotes.  A blank cell is NaN.
Cell(typ, v) == [nan |-> FALSE, typ |-> typ, val |-> v]

NaNCell == [nan |-> TRUE, typ |-> "num", val |-> "nan"]

(***************************************************************************)
(* data/constants.py: the columns and the function that decodes each.      *)
(***************************************************************************)
PULL_REQUEST_RELATED_COLUMNS ==
  [c \in {"author", "pull request id", "pull request created time",
          "pull request closed time", "pull request review time",
          "reverted pull request id", "pull request revert time",
          "num review comments", "num issue comments", "issue comments msg",
          "num approved reviewers", "approved reviewers", "num commits",
          "num line changes"} |->
     CASE c \in {"author", "pull request created time",
                 "pull request closed time"} -> "str"
       [] c \in {"pull request review time",
                 "pull request revert time"} -> "float"
       [] c \in {"issue comments msg", "approved reviewers"} -> "eval"
       [] OTHER -> "int"]

FILE_RELATED_COLUMNS ==
  [c \in {"files changes", "file versions", "review comments msg"} |-> "eval"]

\* Whether the decoder raises on the cell: int(nan) is a ValueError and
\* eval(nan), eval(5) a TypeError; int and float of a text that is no number
\* are a ValueError, eval of a text that is no literal an error too; float
\* accepts NaN and str accepts everything.
Raises(kind, cell) ==
  CASE kind = "str" -> FALSE
    [] kind = "float" -> ~cell.nan /\ cell.typ # "num"
    [] kind = "int" -> cell.nan \/ cell.typ # "num"
    [] kind = "eval" -> cell.nan \/ cell.typ # "literal"

\* the decoded value of a cell on which the decoder does not raise
Decode(kind, cell) ==
  CASE kind = "str" -> IF cell.typ = "num" /\ ~cell.nan
                       THEN ToString(cell.val) ELSE cell.val
    [] kind = "float" -> cell.val
    [] kind = "int" -> cell.val
    [] kind = "eval" -> cell.val

(***************************************************************************)
(* One row of the pull request signals table, as DataCollector writes it   *)
(* (data_collection.py, _collect_signals_for_one_pull_request).            *)
(***************************************************************************)
RECURSIVE SumChanges(_)
SumChanges(fc) ==
  IF fc = <<>> THEN 0 ELSE fc[1][4] + SumChanges(Tail(fc))

\* an ISO-8601 time of the day the pull request id was closed
IsoTime(id, hhmmss) == "2020-07-0" \o ToString(id) \o "T" \o hhmmss \o "Z"

\* The row the collector writes for pull request id.  nans: the columns
\* whose cell is blank (the collector stores None for 'files changes' and
\* 'num line changes' when the pull request has no retrievable file list).
\* iso: the times are ISO-8601 strings, as this collector writes them;
\* otherwise they are timestamps, as the aggregator's decoders expect.
MkDatum(id, author, rc, ic, ar, fc, fv, cr, nans, iso) ==
  [c \in (DOMAIN PULL_REQUEST_RELATED_COLUMNS) \cup (DOMAIN FILE_RELATED_COLUMNS)
         \cup {"repo name", "check run results"} |->
     IF c \in nans THEN NaNCell
     ELSE
     CASE c = "repo name" -> Cell("text", REPO_NAME)
       [] c = "pull request id" -> Cell("num", id)
       [] c = "author" -> Cell("text", author)
       [] c = "pull request created time" ->
            IF iso THEN Cell("text", IsoTime(id, "00:52:38"))
            ELSE Cell("num", 100 * id)
       [] c = "pull request closed time" ->
            IF iso THEN Cell("text", IsoTime(id, "00:52:43"))
            ELSE Cell("num", 100 * id + 5)
       [] c = "pull request review time" -> Cell("num", 5)
       [] c = "reverted pull request id" -> Cell("num", 0)
       [] c = "pull request revert time" -> Cell("num", 0)
       [] c = "num review comments" -> Cell("num", Len(rc))
       [] c = "review comments msg" -> Cell("literal", rc)
       [] c = "num issue comments" -> Cell("num", Len(ic))
       [] c = "issue comments msg" -> Cell("literal", ic)
       [] c = "num approved reviewers" -> Cell("num", Len(ar))
       [] c = "approved reviewers" -> Cell("literal", ar)
       [] c = "num commits" -> Cell("num", Len(cr))
       [] c = "num line changes" -> Cell("num", SumChanges(fc))
       [] c = "files changes" -> Cell("literal", fc)
       [] c = "file versions" -> Cell("literal", fv)
       [] c = "check run results" -> Cell("literal", cr)]

\* the (additions, deletions, changes) the i-th entry of a files changes list
\* carries: additions and deletions differ from entry to entry
FileChange(f, i) == <<f, i - 1, i, 2 * i - 1>>

\* a dict literal {file: versions}: its items in order, no key twice
FileVersionsOf(n) == {s \in BSeq(Files \X Versions, n) : Injective([i \in DOMAIN s |-> s[i][1]])}

FilesChangesOf(n) == {[i \in DOMAIN s |-> FileChange(s[i], i)] : s \in BSeq(Files, n)}

ReviewCommentsOf(n) == BSeq(Files \X Msgs, n)

\* list(approved_reviewers), of a set: no reviewer twice
ApprovedReviewersOf(n) == {s \in BSeq(Reviewers, n) : Injective(s)}

\* the entries of a list cell; a blank cell counts for one
CellSize(cell) == IF cell.nan THEN 1 ELSE Len(cell.val)

\* the size of a row: the row itself, the entries of its lists, its blank cells
DatumSize(datum) ==
  1 + CellSize(datum["file versions"]) + CellSize(datum["check run results"])
    + CellSize(datum["review comments msg"]) + CellSize(datum["files changes"])
    + CellSize(datum["issue comments msg"]) + CellSize(datum["approved reviewers"])

RECURSIVE TableSize(_)
TableSize(rows) ==
  IF rows = <<>> THEN 0 ELSE DatumSize(rows[1]) + TableSize(Tail(rows))

(***************************************************************************)
(* data/file_level_transformation.py                                       *)
(***************************************************************************)
\* FileData(): no file name, no repository name, an empty data dict
NewFileData == [file_name |-> None, repo_name |-> None, data |-> EmptyDict]

\* defaultdict(FileData): keys in insertion order, and the FileData of each
EmptyFileDataDict == [keys |-> <<>>, val |-> EmptyDict]

\* file_data_dict[file_name]: a missing key is inserted with a new FileData
Touch(fdd, f) ==
  IF f \in DOMAIN fdd.val THEN fdd
  ELSE [keys |-> Append(fdd.keys, f), val |-> DictPut(fdd.val, f, NewFileData)]

\* file_data_dict[file_name].data[column] = value
SetData(fdd, f, column, value) ==
  LET t == Touch(fdd, f)
  IN [t EXCEPT !.val[f].data = DictPut(@, column, value)]

\* the loop of _count_check_run_status: two ifs on every outcome
RECURSIVE CountLoop(_, _, _)
CountLoop(check_run_results, num_passed, num_failed) ==
  IF check_run_results = <<>> THEN <<num_passed, num_failed>>
  ELSE LET check_run_result == Head(check_run_results)
       IN CountLoop(Tail(check_run_results),
                    IF check_run_result = "passed"
                    THEN num_passed + 1 ELSE num_passed,
                    IF check_run_result = "failed"
                    THEN num_failed + 1 ELSE num_failed)

\* a version that counts every outcome that is not 'passed' as failed
count_check_run_status_else(check_run_results) ==
  <<CountLoop(check_run_results, 0, 0)[1],
    Len(check_run_results) - CountLoop(check_run_results, 0, 0)[1]>>

\* (num_passed, num_failed) of a list of check run outcomes
count_check_run_status(check_run_results) ==
  CountLoop(check_run_results, 0, 0)

\* for column in self._pr_related_columns: data[column] = value
SetColumns(fdd, f, pr_related_values, columns) ==
  [fdd EXCEPT !.val[f].data =
     [c \in (DOMAIN @) \cup columns |->
        IF c \in columns THEN pr_related_values[c] ELSE @[c]]]

\* the body of the loop of _transform_pr_related_signals, for one file name
TransformPrRelatedFile(fdd, f, pr_related_values, repo_name, check_run_results) ==
  LET t == Touch(fdd, f)
      named == IF t.val[f].file_name = None
               THEN [t EXCEPT !.val[f].file_name = f] ELSE t
      reposet == IF named.val[f].repo_name = None
                 THEN [named EXCEPT !.val[f].repo_name = repo_name] ELSE named
      cols == SetColumns(reposet, f, pr_related_values,
                         DOMAIN PULL_REQUEST_RELATED_COLUMNS)
  IN SetData(cols, f, "check run results",
             count_check_run_status(check_run_results))

RECURSIVE transform_pr_related_signals(_, _, _, _, _)
transform_pr_related_signals(pr_related_values, file_names, repo_name, check_run_results, fdd) ==
  IF file_names = <<>> THEN fdd
  ELSE transform_pr_related_signals(
         pr_related_values, Tail(file_names), repo_name, check_run_results,
         TransformPrRelatedFile(fdd, file_names[1], pr_related_values,
                                repo_name, check_run_results))

\* for file_name, version in file_versions.items()
RECURSIVE SetFileVersions(_, _)
SetFileVersions(fdd, file_versions) ==
  IF file_versions = <<>> THEN fdd
  ELSE SetFileVersions(
         SetData(fdd, file_versions[1][1], "file versions", file_versions[1][2]),
         Tail(file_versions))

\* a version in which the first entry of a file wins, not the last
RECURSIVE SetFilesChangesFirst(_, _)
SetFilesChangesFirst(fdd, file_changes) ==
  IF file_changes = <<>> THEN fdd
  ELSE LET c == file_changes[1]
       IN SetFilesChangesFirst(
            IF c[1] \in DOMAIN fdd.val
               /\ "files changes" \in DOMAIN fdd.val[c[1]].data
            THEN fdd
            ELSE SetData(fdd, c[1], "files changes", <<c[2], c[3], c[4]>>),
            Tail(file_changes))

\* for file_change in file_changes
RECURSIVE SetFilesChanges(_, _)
SetFilesChanges(fdd, file_changes) ==
  IF file_changes = <<>> THEN fdd
  ELSE LET c == file_changes[1]
       IN SetFilesChanges(
            SetData(fdd, c[1], "files changes", <<c[2], c[3], c[4]>>),
            Tail(file_changes))

\* one review comment: the list is created when missing or empty, then the
\* message is appended
AppendReviewMsg(fdd, f, msg) ==
  LET t == Touch(fdd, f)
      d == t.val[f].data
      started == IF "review comments msg" \notin DOMAIN d
                    \/ d["review comments msg"] = <<>>
                 THEN SetData(t, f, "review comments msg", <<>>) ELSE t
  IN SetData(started, f, "review comments msg",
             Append(started.val[f].data["review comments msg"], msg))

\* for review_msg in review_comments_msg
RECURSIVE SetReviewComments(_, _)
SetReviewComments(fdd, review_comments_msg) ==
  IF review_comments_msg = <<>> THEN fdd
  ELSE SetReviewComments(
         AppendReviewMsg(fdd, review_comments_msg[1][1], review_comments_msg[1][2]),
         Tail(review_comments_msg))

transform_file_related_signals(file_related_values, file_versions, fdd) ==
  SetReviewComments(
    SetFilesChanges(SetFileVersions(fdd, file_versions),
                    file_related_values["files changes"]),
    file_related_values["review comments msg"])

\* _get_value_dict raises when a column's decoder raises on the cell
GetValueDictRaises(datum) ==
  \/ \E c \in DOMAIN PULL_REQUEST_RELATED_COLUMNS :
       Raises(PULL_REQUEST_RELATED_COLUMNS[c], datum[c])
  \/ \E c \in DOMAIN FILE_RELATED_COLUMNS :
       Raises(FILE_RELATED_COLUMNS[c], datum[c])

PrRelatedValues(datum) ==
  [c \in DOMAIN PULL_REQUEST_RELATED_COLUMNS |->
     Decode(PULL_REQUEST_RELATED_COLUMNS[c], datum[c])]

FileRelatedValues(datum) ==
  [c \in DOMAIN FILE_RELATED_COLUMNS |->
     Decode(FILE_RELATED_COLUMNS[c], datum[c])]

\* file_versions.keys()
Keys(file_versions) == [i \in DOMAIN file_versions |-> file_versions[i][1]]

\* the file_data_dict of one row, after both passes over it
FileDataDictOf(datum) ==
  LET check_run_results == Decode("eval", datum["check run results"])
      file_versions == FileRelatedValues(datum)["file versions"]
  IN transform_file_related_signals(
       FileRelatedValues(datum), file_versions,
       transform_pr_related_signals(
         PrRelatedValues(datum), Keys(file_versions),
         Decode("str", datum["repo name"]), check_run_results,
         EmptyFileDataDict))

\* the dicts appended to _file_level_data for one row: file_data with its
\* 'file name' and 'repo name' set from the FileData
FileDataOf(fdd) ==
  [i \in DOMAIN fdd.keys |->
     LET fd == fdd.val[fdd.keys[i]]
     IN DictPut(DictPut(fd.data, "file name", fd.file_name),
                "repo name", fd.repo_name)]

\* whether the loop body raises on the row
TransformRaises(datum) ==
  Raises("eval", datum["check run results"]) \/ GetValueDictRaises(datum)

(***************************************************************************)
(* data/file_level_aggregation.py                                          *)
(***************************************************************************)
\* DataAggregator._pr_level_columns: the times are decoded by float
AGG_PR_LEVEL_COLUMNS ==
  [c \in DOMAIN PULL_REQUEST_RELATED_COLUMNS |->
     CASE c = "author" -> "str"
       [] c \in {"pull request created time", "pull request closed time",
                 "pull request review time",
                 "pull request revert time"} -> "float"
       [] c \in {"issue comments msg", "approved reviewers"} -> "eval"
       [] OTHER -> "int"]

AGG_FILE_LEVEL_COLUMNS ==
  [c \in {"files changes", "file versions", "review comments msg"} |-> "eval"]

\* type(value) is list: the values eval gives for the list columns
IsList(column) == AGG_PR_LEVEL_COLUMNS[column] = "eval"

\* data[column] of a defaultdict(list): [] when the key is missing
ListOf(data, column) == IF column \in DOMAIN data THEN data[column] ELSE <<>>

\* self._file_level_data[file_name].data[column].append(value)
AppendData(fld, f, column, value) ==
  LET t == Touch(fld, f)
  IN [t EXCEPT !.val[f].data =
        DictPut(@, column, Append(ListOf(@, column), value))]

\* a version of the column loop that skips a reverted pull request id of 0
AggColumnsSkipNoRevert(fld, f, pr_level_values) ==
  [fld EXCEPT !.val[f].data =
     [c \in (DOMAIN @) \cup (DOMAIN AGG_PR_LEVEL_COLUMNS) |->
        IF c \in DOMAIN AGG_PR_LEVEL_COLUMNS
        THEN IF IsList(c)
             THEN ListOf(@, c) \o pr_level_values[c]
             ELSE IF c = "reverted pull request id" /\ pr_level_values[c] = 0
                  THEN ListOf(@, c)
                  ELSE Append(ListOf(@, c), pr_level_values[c])
        ELSE @[c]]]

\* for column in self._pr_level_columns: extend with a list, append a scalar
AggColumns(fld, f, pr_level_values) ==
  [fld EXCEPT !.val[f].data =
     [c \in (DOMAIN @) \cup (DOMAIN AGG_PR_LEVEL_COLUMNS) |->
        IF c \in DOMAIN AGG_PR_LEVEL_COLUMNS
        THEN IF IsList(c)
             THEN ListOf(@, c) \o pr_level_values[c]
             ELSE Append(ListOf(@, c), pr_level_values[c])
        ELSE @[c]]]

\* the body of the loop of _aggregate_pr_level_signals, for one file name
AggregatePrLevelFile(fld, f, pr_level_values, repo_name, check_run_results) ==
  LET t == Touch(fld, f)
      named == IF t.val[f].file_name = None
               THEN [t EXCEPT !.val[f].file_name = f] ELSE t
      reposet == IF named.val[f].repo_name = None
                 THEN [named EXCEPT !.val[f].repo_name = repo_name] ELSE named
  IN AppendData(AggColumns(reposet, f, pr_level_values), f,
                "check run results", count_check_run_status(check_run_results))

RECURSIVE aggregate_pr_level_signals(_, _, _, _, _)
aggregate_pr_level_signals(fld, pr_level_values, file_names, repo_name, check_run_results) ==
  IF file_names = <<>> THEN fld
  ELSE aggregate_pr_level_signals(
         AggregatePrLevelFile(fld, file_names[1], pr_level_values, repo_name,
                              check_run_results),
         pr_level_values, Tail(file_names), repo_name, check_run_results)

\* for file_name, version in file_versions.items()
RECURSIVE AppendFileVersions(_, _)
AppendFileVersions(fld, file_versions) ==
  IF file_versions = <<>> THEN fld
  ELSE AppendFileVersions(
         AppendData(fld, file_versions[1][1], "file versions", file_versions[1][2]),
         Tail(file_versions))

\* for file_change in file_changes
RECURSIVE AppendFilesChanges(_, _)
AppendFilesChanges(fld, file_changes) ==
  IF file_changes = <<>> THEN fld
  ELSE LET c == file_changes[1]
       IN AppendFilesChanges(
            AppendData(fld, c[1], "files changes", <<c[2], c[3], c[4]>>),
            Tail(file_changes))

\* for review_msg in review_comments_msg
RECURSIVE AppendReviewComments(_, _)
AppendReviewComments(fld, review_comments_msg) ==
  IF review_comments_msg = <<>> THEN fld
  ELSE AppendReviewComments(
         AppendData(fld, review_comments_msg[1][1], "review comments msg",
                    review_comments_msg[1][2]),
         Tail(review_comments_msg))

aggregate_file_level_signals(fld, file_level_values, file_versions) ==
  AppendReviewComments(
    AppendFilesChanges(AppendFileVersions(fld, file_versions),
                       file_level_values["files changes"]),
    file_level_values["review comments msg"])

\* whether the loop body of aggregate raises on the row
AggregateRaises(datum) ==
  \/ Raises("eval", datum["check run results"])
  \/ \E c \in DOMAIN AGG_PR_LEVEL_COLUMNS :
       Raises(AGG_PR_LEVEL_COLUMNS[c], datum[c])
  \/ \E c \in DOMAIN AGG_FILE_LEVEL_COLUMNS :
       Raises(AGG_FILE_LEVEL_COLUMNS[c], datum[c])

AggPrLevelValues(datum) ==
  [c \in DOMAIN AGG_PR_LEVEL_COLUMNS |-> Decode(AGG_PR_LEVEL_COLUMNS[c], datum[c])]

AggFileLevelValues(datum) ==
  [c \in DOMAIN AGG_FILE_LEVEL_COLUMNS |->
     Decode(AGG_FILE_LEVEL_COLUMNS[c], datum[c])]

\* _file_level_data after the loop body of aggregate ran on the row
AggregateDatum(fld, datum) ==
  LET file_versions == AggFileLevelValues(datum)["file versions"]
  IN aggregate_file_level_signals(
       aggregate_pr_level_signals(
         fld, AggPrLevelValues(datum), Keys(file_versions),
         Decode("str", datum["repo name"]),
         Decode("eval", datum["check run results"])),
       AggFileLevelValues(datum), file_versions)

\* DataAggregator.to_df: one row per key of _file_level_data
ToDf(fld) ==
  [i \in DOMAIN fld.keys |->
     LET file_name == fld.keys[i]
     IN DictPut(DictPut(fld.val[file_name].data, "file name", file_name),
                "repo name", fld.val[file_name].repo_name)]

\* the text of the i-th comment of pull request id
CommentText(id, i) == "c" \o ToString(id) \o "." \o ToString(i)

AggReviewCommentsOf(id, n) ==
  {[i \in DOMAIN s |-> <<s[i], CommentText(id, i)>>] : s \in BSeq(Files, n)}

IssueCommentsOf(id, n) ==
  {[i \in 1..k |-> CommentText(id, i)] : k \in 0..n}

AggFileVersionsOf(id, n) ==
  {[i \in DOMAIN s |-> <<s[i], id + i>>] :
     s \in {t \in BSeq(Files, n) : Injective(t)}}

\* the check run outcomes of a row: none, or those of the test constants
CheckRunSamples == {<<>>, <<"passed", "failed", "none", "passed">>}

\* the size of a row of the aggregator's table: its check runs do not count,
\* and times that are no timestamps count for one
AggDatumSize(datum) ==
  DatumSize(datum) - CellSize(datum["check run results"])
    + (IF datum["pull request closed time"].typ = "text" THEN 1 ELSE 0)

RECURSIVE AggTableSize(_)
AggTableSize(rows) ==
  IF rows = <<>> THEN 0 ELSE AggDatumSize(rows[1]) + AggTableSize(Tail(rows))

(***************************************************************************)
(* The historical window of a target date.  The aggregator that cuts the   *)
(* window is not among the sources; only the date arithmetic of its test   *)
(* is.  The window is modelled from its specification: timestamps are      *)
(* seconds since 2020-01-01T00:00:00.                                      *)
(***************************************************************************)
SecondsPerDay == 86400

\* the lengths of the months of the year 2020
DaysInMonth == <<31, 29, 31, 30, 31, 30, 31, 31, 30, 31, 30, 31>>

RECURSIVE DaysBefore(_)
DaysBefore(month) ==
  IF month = 1 THEN 0 ELSE DaysInMonth[month - 1] + DaysBefore(month - 1)

\* datetime.fromisoformat("2020-MM-DDThh:mm:ss")
FromIsoFormat(month, day, hh, mm, ss) ==
  (DaysBefore(month) + day - 1) * SecondsPerDay + hh * 3600 + mm * 60 + ss

\* the calendar day a timestamp falls on, counted from 2020-01-01
DayOf(t) == t \div SecondsPerDay

\* strftime("%Y-%m-%d") of a timestamp of 2020, as <<month, day>>
StrfDate(t) ==
  LET month == CHOOSE m \in 1..12 :
                 DaysBefore(m) <= DayOf(t) /\ DayOf(t) < DaysBefore(m) + DaysInMonth[m]
  IN <<month, DayOf(t) - DaysBefore(month) + 1>>

\* t - timedelta(days=n)
MinusDays(t, n) == t - n * SecondsPerDay

FloorToMidnight(t) == t - (t % SecondsPerDay)

CeilToLastSecond(t) == FloorToMidnight(t) + SecondsPerDay - 1

\* a window that starts r days before d, not r + 1
WindowStartAtRange(d, r) == FloorToMidnight(MinusDays(d, r))

\* start = floor_to_midnight(d - (r+1) days)
WindowStart(d, r) == FloorToMidnight(MinusDays(d, r + 1))

\* a window that ends with the target date, not the day before it
WindowEndAtTarget(d) == CeilToLastSecond(d)

\* end = ceil_to_23:59:59(d - 1 day)
WindowEnd(d) == CeilToLastSecond(MinusDays(d, 1))

\* the target dates: 2020-08-01 at midnight and at 00:52:38, 2020-03-01 at noon
TargetDates ==
  {FromIsoFormat(8, 1, 0, 0, 0), FromIsoFormat(8, 1, 0, 52, 38),
   FromIsoFormat(3, 1, 12, 0, 0)}

\* the times of day of the closed timestamps
TimesOfDay == {0, 52 * 60 + 38, SecondsPerDay - 1}

(***************************************************************************)
(* remove_nan of the window aggregator.  The function is not among the     *)
(* sources; its test carries the loop it stands for.  An entry of a list   *)
(* is a number, None or NaN.                                               *)
(***************************************************************************)
Num(n) == <<"num", n>>

NoneEntry == <<"None", 0>>

NaNEntry == <<"nan", 0>>

\* pd.isna(e)
IsNa(e) == e[1] \in {"None", "nan"}

\* a version of the loop that puts 0 where an entry is absent
RECURSIVE remove_nan_zero(_)
remove_nan_zero(lst) ==
  IF lst = <<>> THEN <<>>
  ELSE <<IF IsNa(lst[1]) THEN Num(0) ELSE lst[1]>> \o remove_nan_zero(Tail(lst))

\* for e in lst: if not pd.isna(e): results.append(e)
RECURSIVE remove_nan(_)
remove_nan(lst) ==
  IF lst = <<>> THEN <<>>
  ELSE (IF IsNa(lst[1]) THEN <<>> ELSE <<lst[1]>>) \o remove_nan(Tail(lst))

\* the entries of the lists: the numbers of the test and 0, None, NaN
NanEntries == {Num(0), Num(1), Num(2), Num(5), NoneEntry, NaNEntry}

(***************************************************************************)
(* The floats of the feature extractor.  The quotient of two integers is   *)
(* the double nearest to it; it is held as the fraction in lowest terms.   *)
(***************************************************************************)
RECURSIVE GCD(_, _)
GCD(a, b) == IF b = 0 THEN a ELSE GCD(b, a % b)

\* a / b of two integers, b > 0
TrueDiv(a, b) == [num |-> a \div GCD(a, b), den |-> b \div GCD(a, b)]

\* the float 0.0
FloatZero == [num |-> 0, den |-> 1]

\* int.bit_length
RECURSIVE BitLength(_)
BitLength(x) == IF x = 0 THEN 0 ELSE 1 + BitLength(x \div 2)

\* The division s / n carried to the 53 significant bits of a double: r is
\* the remainder, bits the significant bits so far, k the binary places,
\* last the last bit.  Returns the remainder of the truncated quotient.
RECURSIVE LongDivision(_, _, _, _, _)
LongDivision(r, n, bits, k, last) ==
  IF bits >= 53 THEN [r |-> r, k |-> k, last |-> last]
  ELSE LET b == IF 2 * r >= n THEN 1 ELSE 0
       IN LongDivision(2 * r - n * b, n,
                       IF bits > 0 \/ b = 1 THEN bits + 1 ELSE bits, k + 1, b)

\* Whether (s / n) * n, both operations rounded to the nearest double, ties
\* to even, is s, for integers s >= 0 and n > 0.  With M the mantissa of
\* s / n and k its binary places, M * n differs from s * 2^k by err; the
\* product rounds to s iff err is within half a unit in the last place of s.
DivMulIsExact(s, n) ==
  IF s = 0 THEN TRUE
  ELSE LET d == LongDivision(s % n, n, BitLength(s \div n), 0, (s \div n) % 2)
           up == 2 * d.r > n \/ (2 * d.r = n /\ d.last = 1)
           err == IF up THEN n - d.r ELSE 0 - d.r
           ulp == 2 ^ (BitLength(s) + d.k - 53)
           power_of_two == 2 ^ (BitLength(s) - 1) = s
       IN IF err >= 0 THEN 2 * err <= ulp
          ELSE IF power_of_two THEN 4 * (0 - err) <= ulp
          ELSE 2 * (0 - err) <= ulp

(***************************************************************************)
(* FeatureExtractor: the reduction functions.  Their argument is a cell of *)
(* the window table, NaN or the text of a list.                            *)
(***************************************************************************)
\* sum(lst)
RECURSIVE Sum(_)
Sum(lst) == IF lst = <<>> THEN 0 ELSE lst[1] + Sum(Tail(lst))

\* a version of compute_count that takes NaN for one entry
compute_count_of_scalar(lst) ==
  IF lst.nan THEN 1
  ELSE IF Len(lst.val) = 0 THEN 0
  ELSE Len(lst.val)

compute_count(lst) ==
  IF lst.nan THEN 0
  ELSE IF Len(lst.val) = 0 THEN 0
  ELSE Len(lst.val)

\* a version of compute_avg that divides by the number of nonzero entries
compute_avg_of_nonzero(lst) ==
  IF lst.nan THEN FloatZero
  ELSE IF Len(lst.val) = 0 THEN FloatZero
  ELSE IF Len(SelectSeq(lst.val, LAMBDA e : e # 0)) = 0 THEN FloatZero
  ELSE TrueDiv(Sum(lst.val), Len(SelectSeq(lst.val, LAMBDA e : e # 0)))

compute_avg(lst) ==
  IF lst.nan THEN FloatZero
  ELSE IF Len(lst.val) = 0 THEN FloatZero
  ELSE TrueDiv(Sum(lst.val), Len(lst.val))

compute_sum(lst) ==
  IF lst.nan THEN 0
  ELSE Sum(lst.val)

\* the loop over the entries: <<total, count>> of those that are not 0
RECURSIVE NonzeroLoop(_, _, _)
NonzeroLoop(lst, total, count) ==
  IF lst = <<>> THEN <<total, count>>
  ELSE IF lst[1] # 0 THEN NonzeroLoop(Tail(lst), total + lst[1], count + 1)
  ELSE NonzeroLoop(Tail(lst), total, count)

compute_nonzero_count(lst) ==
  IF lst.nan THEN 0
  ELSE NonzeroLoop(lst.val, 0, 0)[2]

\* a version of compute_nonzero_avg that divides by the length of the list
compute_nonzero_avg_of_all(lst) ==
  IF lst.nan THEN FloatZero
  ELSE IF NonzeroLoop(lst.val, 0, 0)[2] = 0 THEN FloatZero
  ELSE TrueDiv(NonzeroLoop(lst.val, 0, 0)[1], Len(lst.val))

compute_nonzero_avg(lst) ==
  IF lst.nan THEN FloatZero
  ELSE IF NonzeroLoop(lst.val, 0, 0)[2] = 0 THEN FloatZero
  ELSE TrueDiv(NonzeroLoop(lst.val, 0, 0)[1], NonzeroLoop(lst.val, 0, 0)[2])

compute_nonzero_sum(lst) ==
  IF lst.nan THEN 0
  ELSE NonzeroLoop(lst.val, 0, 0)[1]

compute_avg_count(lst, pr_ids) ==
  IF lst.nan THEN FloatZero
  ELSE IF Len(pr_ids) = 0 THEN FloatZero
  ELSE TrueDiv(Len(lst.val), Len(pr_ids))

\* for t in lst: total += eval(t)[index]; the indices of Python start at 0
RECURSIVE TotalAt(_, _)
TotalAt(lst, index) ==
  IF lst = <<>> THEN 0 ELSE lst[1].val[index + 1] + TotalAt(Tail(lst), index)

compute_total_check_runs(lst, index) ==
  IF lst.nan THEN 0
  ELSE IF Len(lst.val) = 0 THEN 0
  ELSE TotalAt(lst.val, index)

\* a version of compute_avg_check_runs that leaves the tuples whose component
\* is 0 out of the denominator
compute_avg_check_runs_nonzero(lst, index) ==
  IF lst.nan THEN FloatZero
  ELSE IF Len(lst.val) = 0 THEN FloatZero
  ELSE IF TotalAt(lst.val, index) = 0 THEN FloatZero
  ELSE TrueDiv(TotalAt(lst.val, index),
               Len(SelectSeq(lst.val, LAMBDA t : t.val[index + 1] # 0)))

compute_avg_check_runs(lst, index) ==
  IF lst.nan THEN FloatZero
  ELSE IF Len(lst.val) = 0 THEN FloatZero
  ELSE TrueDiv(TotalAt(lst.val, index), Len(lst.val))

compute_total_file_changes(lst, index) ==
  IF lst.nan THEN 0
  ELSE IF Len(lst.val) = 0 THEN 0
  ELSE TotalAt(lst.val, index)

compute_avg_file_changes(lst, index) ==
  IF lst.nan THEN FloatZero
  ELSE IF Len(lst.val) = 0 THEN FloatZero
  ELSE TrueDiv(TotalAt(lst.val, index), Len(lst.val))

\* the numbers of the lists: those of test_compute_nonzero_count
NumberEntries == {0, 1, 2, 6}

\* the texts of the pairs of test_compute_avg_check_runs
CheckRunEntries ==
  {Cell("literal", <<1, 0>>), Cell("literal", <<2, 8>>),
   Cell("literal", <<5, 3>>), Cell("literal", <<0, 0>>)}

\* the texts of the triples of test_compute_total_file_changes
FileChangeEntries ==
  {Cell("literal", <<10, 20, 30>>), Cell("literal", <<200, 50, 250>>),
   Cell("literal", <<50, 30, 80>>)}

\* the messages of test_compute_avg_count
CommentEntries == {"This is good", "I wont approve this"}

\* the cells of a column: NaN, or the text of a list of at most n entries
CellsOf(entries, n) == {NaNCell} \cup {Cell("literal", l) : l \in BSeq(entries, n)}

(***************************************************************************)
(* FeatureExtractor.extract_features.                                      *)
(***************************************************************************)
\* self._function_map, in the order of the dict: <<column, function, value>>
FUNCTION_MAP ==
  << <<"author", "compute_count", "count">>,
     <<"pull request id", "compute_count", "count">>,
     <<"pull request review time", "compute_sum", "total">>,
     <<"pull request review time", "compute_avg", "avg">>,
     <<"reverted pull request id", "compute_nonzero_count", "count">>,
     <<"pull request revert time", "compute_nonzero_avg", "avg">>,
     <<"pull request revert time", "compute_nonzero_sum", "total">>,
     <<"num review comments", "compute_sum", "total">>,
     <<"num review comments", "compute_avg", "avg">>,
     <<"num issue comments", "compute_sum", "total">>,
     <<"num issue comments", "compute_avg", "avg">>,
     <<"num approved reviewers", "compute_sum", "total">>,
     <<"num approved reviewers", "compute_avg", "avg">>,
     <<"num commits", "compute_sum", "total">>,
     <<"num commits", "compute_avg", "avg">>,
     <<"num line changes", "compute_sum", "total">>,
     <<"num line changes", "compute_avg", "avg">>,
     <<"file versions", "compute_sum", "total">>,
     <<"file versions", "compute_avg", "avg">> >>

\* self._function_map_with_args, the dicts of its values spread out:
\* <<column, function, index, value[index]>>
FUNCTION_MAP_WITH_ARGS ==
  << <<"check run results", "compute_avg_check_runs", 0, "passed avg">>,
     <<"check run results", "compute_avg_check_runs", 1, "failed avg">>,
     <<"check run results", "compute_total_check_runs", 0, "passed count">>,
     <<"check run results", "compute_total_check_runs", 1, "failed count">>,
     <<"files changes", "compute_avg_file_changes", 0, "avg additions">>,
     <<"files changes", "compute_avg_file_changes", 1, "avg deletions">>,
     <<"files changes", "compute_avg_file_changes", 2, "avg changes">>,
     <<"files changes", "compute_total_file_changes", 0, "total additions">>,
     <<"files changes", "compute_total_file_changes", 1, "total deletions">>,
     <<"files changes", "compute_total_file_changes", 2, "total changes">> >>

\* func(cell) for a function of _function_map
Apply(func, lst) ==
  CASE func = "compute_count" -> compute_count(lst)
    [] func = "compute_sum" -> compute_sum(lst)
    [] func = "compute_avg" -> compute_avg(lst)
    [] func = "compute_nonzero_count" -> compute_nonzero_count(lst)
    [] func = "compute_nonzero_avg" -> compute_nonzero_avg(lst)
    [] func = "compute_nonzero_sum" -> compute_nonzero_sum(lst)

\* func(cell, index) for a function of _function_map_with_args
ApplyWithArgs(func, lst, index) ==
  CASE func = "compute_avg_check_runs" -> compute_avg_check_runs(lst, index)
    [] func = "compute_total_check_runs" -> compute_total_check_runs(lst, index)
    [] func = "compute_avg_file_changes" -> compute_avg_file_changes(lst, index)
    [] func = "compute_total_file_changes" -> compute_total_file_changes(lst, index)

\* a version of the loop over _function_map that joins the name with '_'
RECURSIVE ApplyFunctionMapUnderscore(_, _, _)
ApplyFunctionMapUnderscore(features, datum, map) ==
  IF map = <<>> THEN features
  ELSE ApplyFunctionMapUnderscore(
         DictPut(features, map[1][1] \o "_" \o map[1][3],
                 Apply(map[1][2], datum[map[1][1]])),
         datum, Tail(map))

\* the loop over _function_map: features[column + ' ' + value] = func(cell)
RECURSIVE ApplyFunctionMap(_, _, _)
ApplyFunctionMap(features, datum, map) ==
  IF map = <<>> THEN features
  ELSE ApplyFunctionMap(
         DictPut(features, map[1][1] \o " " \o map[1][3],
                 Apply(map[1][2], datum[map[1][1]])),
         datum, Tail(map))

\* the loop over _function_map_with_args
RECURSIVE ApplyFunctionMapWithArgs(_, _, _)
ApplyFunctionMapWithArgs(features, datum, map) ==
  IF map = <<>> THEN features
  ELSE ApplyFunctionMapWithArgs(
         DictPut(features, map[1][1] \o " " \o map[1][4],
                 ApplyWithArgs(map[1][2], datum[map[1][1]], map[1][3])),
         datum, Tail(map))

\* file_level_data[['repo name', 'file name']]
KeyColumns(datum) ==
  DictPut(DictPut(EmptyDict, "repo name", datum["repo name"]),
          "file name", datum["file name"])

\* the last column: compute_avg_count(cell, args=[the 'pull request id'
\* column of the table]), whose len is the number of rows of the table
AvgCountColumn(features, datum, pr_id_column) ==
  DictPut(features, "review comments msg avg count",
          compute_avg_count(datum["review comments msg"], pr_id_column))

\* the features of one row of the table
FeaturesOfRow(datum, pr_id_column) ==
  AvgCountColumn(
    ApplyFunctionMapWithArgs(
      ApplyFunctionMap(KeyColumns(datum), datum, FUNCTION_MAP),
      datum, FUNCTION_MAP_WITH_ARGS),
    datum, pr_id_column)

\* _file_level_features after extract_features
ExtractFeaturesOf(file_level_data) ==
  [i \in DOMAIN file_level_data |->
     FeaturesOfRow(file_level_data[i],
                   [j \in DOMAIN file_level_data |->
                      file_level_data[j]["pull request id"]])]

\* COMMON_FILE_LEVEL_FEATURES of the loader
COMMON_FILE_LEVEL_FEATURES ==
  <<"author count", "pull request id count", "pull request review time total",
    "pull request review time avg", "reverted pull request id count",
    "pull request revert time avg", "pull request revert time total",
    "num review comments total", "num review comments avg",
    "num issue comments total", "num issue comments avg",
    "num approved reviewers total", "num approved reviewers avg",
    "num commits total", "num commits avg", "num line changes total",
    "num line changes avg", "check run results passed avg",
    "check run results failed avg", "check run results passed count",
    "check run results failed count", "files changes avg additions",
    "files changes avg deletions", "files changes avg changes",
    "files changes total additions", "files changes total deletions",
    "files changes total changes", "review comments msg avg count">>

\* file_data of DataLoader._get_file_data for a row of a feature table:
\* file_signals[feature] for each common feature; a KeyError is <<>>
GetFileData(file_signals) ==
  IF \A i \in DOMAIN COMMON_FILE_LEVEL_FEATURES :
       COMMON_FILE_LEVEL_FEATURES[i] \in DOMAIN file_signals
  THEN <<[i \in DOMAIN COMMON_FILE_LEVEL_FEATURES |->
            file_signals[COMMON_FILE_LEVEL_FEATURES[i]]]>>
  ELSE <<>>

\* the entry the i-th contributing pull request adds to the list of a column
EntryOf(c, i) ==
  CASE c = "author" -> "u1"
    [] c = "check run results" -> Cell("literal", <<i, 1>>)
    [] c = "files changes" -> Cell("literal", <<i - 1, i, 2 * i - 1>>)
    [] c \in {"reverted pull request id", "pull request revert time"} ->
         IF i = 2 THEN 3 ELSE 0
    [] OTHER -> i

\* the list cell of a column, one entry per contributing pull request; NaN
\* when the cell of the pull request ids is
ListCell(ids, c) ==
  IF ids.nan THEN NaNCell
  ELSE Cell("literal", [i \in DOMAIN ids.val |-> EntryOf(c, i)])

\* The row of a window table for a file: ids is the cell of its pull request
\* ids, msgs the cell of its review comments.
WindowRow(file, ids, msgs) ==
  [c \in {"repo name", "file name", "review comments msg"}
          \cup {FUNCTION_MAP[i][1] : i \in DOMAIN FUNCTION_MAP}
          \cup {FUNCTION_MAP_WITH_ARGS[i][1] : i \in DOMAIN FUNCTION_MAP_WITH_ARGS} |->
     CASE c = "repo name" -> REPO_NAME
       [] c = "file name" -> file
       [] c = "review comments msg" -> msgs
       [] c = "pull request id" -> ids
       [] OTHER -> ListCell(ids, c)]

\* the cells of the pull request ids of a row: NaN, or 0 to n ids
IdCells(n) == {NaNCell} \cup {Cell("literal", [i \in 1..k |-> 10 * i]) : k \in 0..n}

(***************************************************************************)
(* The stored text of a nested value.  csv.writer and DataFrame.to_csv     *)
(* write str(value) as a CSV field; pd.read_csv hands the field back as a  *)
(* str, or NaN for the empty field, and the eval of the column decodes it. *)
(* A text is a sequence of characters.  A value is an int, a str, None, a  *)
(* list, a tuple or a dict whose items are <<key, value>> tuples.          *)
(***************************************************************************)
IntV(n) == [t |-> "int", n |-> n, chars |-> <<>>, items |-> <<>>]

StrV(chars) == [t |-> "str", n |-> 0, chars |-> chars, items |-> <<>>]

NoneV == [t |-> "None", n |-> 0, chars |-> <<>>, items |-> <<>>]

ListV(items) == [t |-> "list", n |-> 0, chars |-> <<>>, items |-> items]

TupleV(items) == [t |-> "tuple", n |-> 0, chars |-> <<>>, items |-> items]

DictV(items) == [t |-> "dict", n |-> 0, chars |-> <<>>, items |-> items]

\* str(n) of an int n >= 0
RECURSIVE Digits(_)
Digits(n) ==
  IF n < 10 THEN <<ToString(n)>> ELSE Append(Digits(n \div 10), ToString(n % 10))

\* a version of the body that escapes nothing
RECURSIVE EscapeNothing(_, _)
EscapeNothing(chars, q) ==
  IF chars = <<>> THEN <<>> ELSE <<chars[1]>> \o EscapeNothing(Tail(chars), q)

\* the body of the repr of a str between the quotes q
RECURSIVE Escape(_, _)
Escape(chars, q) ==
  IF chars = <<>> THEN <<>>
  ELSE (CASE chars[1] = "\\" -> <<"\\", "\\">>
          [] chars[1] = "\n" -> <<"\\", "n">>
          [] chars[1] = q -> <<"\\", q>>
          [] OTHER -> <<chars[1]>>)
       \o Escape(Tail(chars), q)

\* repr of a str: double quotes when it holds a ' and no ", else single ones
ReprStr(chars) ==
  LET q == IF "'" \in Range(chars) /\ "\"" \notin Range(chars) THEN "\"" ELSE "'"
  IN <<q>> \o Escape(chars, q) \o <<q>>

\* str of a list, a tuple of two or more items or a dict, and of its items
RECURSIVE Repr(_)
RECURSIVE ReprItems(_)
RECURSIVE ReprDictItems(_)
Repr(v) ==
  CASE v.t = "int" -> Digits(v.n)
    [] v.t = "str" -> ReprStr(v.chars)
    [] v.t = "None" -> <<"N", "o", "n", "e">>
    [] v.t = "list" -> <<"[">> \o ReprItems(v.items) \o <<"]">>
    [] v.t = "tuple" -> <<"(">> \o ReprItems(v.items) \o <<")">>
    [] v.t = "dict" -> <<"{">> \o ReprDictItems(v.items) \o <<"}">>

ReprItems(items) ==
  IF items = <<>> THEN <<>>
  ELSE Repr(items[1])
       \o (IF Len(items) > 1 THEN <<",", " ">> \o ReprItems(Tail(items)) ELSE <<>>)

ReprDictItems(items) ==
  IF items = <<>> THEN <<>>
  ELSE Repr(items[1].items[1]) \o <<":", " ">> \o Repr(items[1].items[2])
       \o (IF Len(items) > 1 THEN <<",", " ">> \o ReprDictItems(Tail(items))
           ELSE <<>>)

\* the quotes of a CSV field doubled
RECURSIVE DoubleQuotes(_)
DoubleQuotes(text) ==
  IF text = <<>> THEN <<>>
  ELSE (IF text[1] = "\"" THEN <<"\"", "\"">> ELSE <<text[1]>>)
       \o DoubleQuotes(Tail(text))

\* csv.writer: a field that holds a delimiter, a quote or a line end is quoted
CsvWrite(text) ==
  IF Range(text) \cap {",", "\"", "\n"} # {}
  THEN <<"\"">> \o DoubleQuotes(text) \o <<"\"">>
  ELSE text

\* the content of a quoted CSV field, up to its closing quote
RECURSIVE Unquote(_)
Unquote(text) ==
  IF text = <<>> THEN <<>>
  ELSE IF text[1] = "\""
       THEN IF Len(text) > 1 /\ text[2] = "\""
            THEN <<"\"">> \o Unquote(Tail(Tail(text)))
            ELSE <<>>
       ELSE <<text[1]>> \o Unquote(Tail(text))

\* pd.read_csv of a field
CsvRead(field) ==
  IF field # <<>> /\ field[1] = "\"" THEN Unquote(Tail(field)) ELSE field

\* the result of an eval that raised a SyntaxError
SyntaxError == [ok |-> FALSE, error |-> "SyntaxError", val |-> NoneV, rest |-> <<>>]

\* the result of eval(NaN), which is no str
TypeError == [ok |-> FALSE, error |-> "TypeError", val |-> NoneV, rest |-> <<>>]

Parsed(val, rest) == [ok |-> TRUE, error |-> "", val |-> val, rest |-> rest]

RECURSIVE SkipSpaces(_)
SkipSpaces(text) ==
  IF text # <<>> /\ text[1] = " " THEN SkipSpaces(Tail(text)) ELSE text

IsDigit(c) == \E d \in 0..9 : ToString(d) = c

DigitValue(c) == CHOOSE d \in 0..9 : ToString(d) = c

\* an int literal: its digits, n being the value of those read
RECURSIVE ParseInt(_, _)
ParseInt(text, n) ==
  IF text # <<>> /\ IsDigit(text[1])
  THEN ParseInt(Tail(text), 10 * n + DigitValue(text[1]))
  ELSE Parsed(IntV(n), text)

\* a str literal after its opening quote q, acc being the characters read
RECURSIVE ParseStr(_, _, _)
ParseStr(text, q, acc) ==
  IF text = <<>> THEN SyntaxError
  ELSE IF text[1] = q THEN Parsed(StrV(acc), Tail(text))
  ELSE IF text[1] = "\n" THEN SyntaxError
  ELSE IF text[1] = "\\"
       THEN IF Len(text) < 2 THEN SyntaxError
            ELSE ParseStr(Tail(Tail(text)), q,
                          acc \o (CASE text[2] = "n" -> <<"\n">>
                                    [] text[2] \in {"\\", "'", "\""} -> <<text[2]>>
                                    [] OTHER -> <<"\\", text[2]>>))
  ELSE ParseStr(Tail(text), q, Append(acc, text[1]))

\* eval of a literal: the value at the head of a text, and the items of a
\* display up to its closing bracket (commas counts the commas read)
RECURSIVE ParseValue(_)
RECURSIVE ParseItems(_, _, _, _)
RECURSIVE ParseDictItems(_, _)
ParseValue(text0) ==
  LET text == SkipSpaces(text0)
  IN IF text = <<>> THEN SyntaxError
     ELSE CASE text[1] = "[" ->
                 LET r == ParseItems(Tail(text), "]", <<>>, 0)
                 IN IF r.ok THEN Parsed(ListV(r.val.items), r.rest) ELSE SyntaxError
            [] text[1] = "(" ->
                 LET r == ParseItems(Tail(text), ")", <<>>, 0)
                 IN IF ~r.ok THEN SyntaxError
                    ELSE IF Len(r.val.items) = 1 /\ r.val.n = 0
                         THEN Parsed(r.val.items[1], r.rest)
                    ELSE Parsed(TupleV(r.val.items), r.rest)
            [] text[1] = "{" ->
                 LET r == ParseDictItems(Tail(text), <<>>)
                 IN IF r.ok THEN Parsed(DictV(r.val.items), r.rest) ELSE SyntaxError
            [] text[1] \in {"'", "\""} -> ParseStr(Tail(text), text[1], <<>>)
            [] IsDigit(text[1]) -> ParseInt(text, 0)
            [] Len(text) >= 4 /\ SubSeq(text, 1, 4) = <<"N", "o", "n", "e">> ->
                 Parsed(NoneV, SubSeq(text, 5, Len(text)))
            [] OTHER -> SyntaxError

ParseItems(text0, close, acc, commas) ==
  LET text == SkipSpaces(text0)
  IN IF text = <<>> THEN SyntaxError
     ELSE IF text[1] = close
          THEN Parsed([ListV(acc) EXCEPT !.n = commas], Tail(text))
     ELSE LET r == ParseValue(text)
              after == SkipSpaces(r.rest)
          IN IF ~r.ok \/ after = <<>> THEN SyntaxError
             ELSE IF after[1] = ","
                  THEN ParseItems(Tail(after), close, Append(acc, r.val), commas + 1)
             ELSE IF after[1] = close
                  THEN Parsed([ListV(Append(acc, r.val)) EXCEPT !.n = commas],
                              Tail(after))
             ELSE SyntaxError

ParseDictItems(text0, acc) ==
  LET text == SkipSpaces(text0)
  IN IF text = <<>> THEN SyntaxError
     ELSE IF text[1] = "}" THEN Parsed(ListV(acc), Tail(text))
     ELSE LET k == ParseValue(text)
              colon == SkipSpaces(k.rest)
          IN IF ~k.ok \/ colon = <<>> \/ colon[1] # ":" THEN SyntaxError
             ELSE LET v == ParseValue(Tail(colon))
                      after == SkipSpaces(v.rest)
                      item == TupleV(<<k.val, v.val>>)
                  IN IF ~v.ok \/ after = <<>> THEN SyntaxError
                     ELSE IF after[1] = ","
                          THEN ParseDictItems(Tail(after), Append(acc, item))
                     ELSE IF after[1] = "}"
                          THEN Parsed(ListV(Append(acc, item)), Tail(after))
                     ELSE SyntaxError

\* eval(text): the value of the whole text
EvalText(text) ==
  LET r == ParseValue(text)
  IN IF r.ok /\ SkipSpaces(r.rest) = <<>> THEN Parsed(r.val, <<>>) ELSE SyntaxError

\* the cell pd.read_csv makes of the text read: NaN for the empty field
CellOfText(text) == IF text = <<>> THEN NaNCell ELSE Cell("text", text)

\* the field csv.writer writes for a value: nothing for None, else str(value)
StoredText(v) == IF v.t = "None" THEN <<>> ELSE CsvWrite(Repr(v))

\* eval(datum[column]) of the cell read back from a stored field
EvalCell(cell) == IF cell.nan THEN TypeError ELSE EvalText(cell.val)

\* the strs of the values: a path, and texts with quotes, a backslash, a
\* line end and a comma
StrSamples ==
  {<<>>, <<"a", ".", "p", "y">>, <<"'">>, <<"\"">>, <<"'", "\"">>, <<"\\">>,
   <<"\n">>, <<"m", ",", "1">>}

PathSamples == {<<"a", ".", "p", "y">>, <<"b">>}

CountSamples == {<<0, 0, 0>>, <<1, 2, 3>>, <<10, 20, 30>>}

\* the lists of at most n items
ListsOf(items, n) == {ListV(l) : l \in BSeq(items, n)}

\* issue comments, approved reviewers, check run results: str, int or None
ScalarLists(n) ==
  ListsOf({StrV(c) : c \in StrSamples} \cup {IntV(0), IntV(12), NoneV}, n)

\* review comments: (path, message)
PairLists(n) ==
  ListsOf({TupleV(<<StrV(f), StrV(c)>>) : f \in PathSamples, c \in StrSamples}, n)

\* files changes of a file: (additions, deletions, changes)
TripleLists(n) ==
  ListsOf({TupleV(<<IntV(t[1]), IntV(t[2]), IntV(t[3])>>) : t \in CountSamples}, n)

\* files changes of a pull request: (path, additions, deletions, changes)
FileChangeLists(n) ==
  ListsOf({TupleV(<<StrV(f), IntV(t[1]), IntV(t[2]), IntV(t[3])>>) :
             f \in PathSamples, t \in CountSamples}, n)

\* file versions: path -> count, no path twice
Mappings(n) ==
  {DictV(l) : l \in {m \in BSeq({TupleV(<<StrV(f), IntV(k)>>) :
                                     f \in PathSamples, k \in {1, 12}}, n) :
                       \A i, j \in DOMAIN m :
                         m[i].items[1] = m[j].items[1] => i = j}}

(***************************************************************************)
(* DataTransformer.transform on a row one of whose nested columns holds a  *)
(* given text.  The cell of that column has typ "source" and val the text, *)
(* a sequence of characters; eval decodes it, and the loops of transform   *)
(* iterate and unpack whatever value eval returned.                        *)
(***************************************************************************)
\* ''.join(chars)
RECURSIVE Join(_)
Join(chars) == IF chars = <<>> THEN "" ELSE chars[1] \o Join(Tail(chars))

\* the value of the model of the transformer for a decoded value: a number, a
\* string, None, or the sequence of the plain items
RECURSIVE Plain(_)
Plain(v) ==
  CASE v.t = "int" -> v.n
    [] v.t = "str" -> Join(v.chars)
    [] v.t = "None" -> None
    [] OTHER -> [i \in DOMAIN v.items |-> Plain(v.items[i])]

\* whether `for x in v` works: a list, a tuple, a dict or a str
Iterable(v) == v.t \in {"list", "tuple", "dict", "str"}

\* what `for x in v` yields: the items, the keys of a dict, the characters
Iter(v) ==
  CASE v.t = "dict" -> [i \in DOMAIN v.items |-> v.items[i].items[1]]
    [] v.t = "str" -> [i \in DOMAIN v.chars |-> StrV(<<v.chars[i]>>)]
    [] OTHER -> v.items

\* whether v can be a key of file_data_dict
RECURSIVE Hashable(_)
Hashable(v) ==
  CASE v.t \in {"list", "dict"} -> FALSE
    [] v.t = "tuple" -> \A i \in DOMAIN v.items : Hashable(v.items[i])
    [] OTHER -> TRUE

\* whether `file_name, ... = x` works for every x of v, n names on the left,
\* and file_data_dict[file_name] after it
UnpacksAll(v, n) ==
  /\ Iterable(v)
  /\ \A i \in DOMAIN Iter(v) :
       /\ Iterable(Iter(v)[i])
       /\ Len(Iter(Iter(v)[i])) = n
       /\ Hashable(Iter(Iter(v)[i])[1])

\* Whether transform raises after eval returned v for the column:
\* file_versions.keys() wants a dict, _count_check_run_status iterates the
\* check run results once per file name, and the loops of
\* _transform_file_related_signals unpack four and two names.
ShapeRaises(column, v, has_files) ==
  CASE column = "file versions" -> v.t # "dict"
    [] column = "check run results" -> has_files /\ ~Iterable(v)
    [] column = "files changes" -> ~UnpacksAll(v, 4)
    [] column = "review comments msg" -> ~UnpacksAll(v, 2)
    [] OTHER -> FALSE

\* the string that stands for a key or an outcome: the content of a str, the
\* repr of anything else (no str of the texts below is the repr of another
\* value)
NameOf(v) == IF v.t = "str" THEN Join(v.chars) ELSE Join(Repr(v))

\* the items the loops of transform see in the value of the column
LoopItems(column, v) ==
  CASE column = "file versions" ->
         [i \in DOMAIN v.items |->
            <<NameOf(v.items[i].items[1]), Plain(v.items[i].items[2])>>]
    [] column = "check run results" ->
         IF Iterable(v) THEN [i \in DOMAIN Iter(v) |-> NameOf(Iter(v)[i])]
         ELSE <<>>
    [] column \in {"files changes", "review comments msg"} ->
         [i \in DOMAIN Iter(v) |->
            [j \in DOMAIN Iter(Iter(v)[i]) |->
               IF j = 1 THEN NameOf(Iter(Iter(v)[i])[j])
               ELSE Plain(Iter(Iter(v)[i])[j])]]
    [] OTHER -> Plain(v)

\* the texts stored in the column: literals of the shapes of the columns,
\* literals of other shapes, and texts that are no literal
ColumnTexts ==
  {
   <<"[", "]">>,
   <<"{", "}">>,
   <<"(", ")">>,
   <<"'", "'">>,
   <<"5">>,
   <<"N", "o", "n", "e">>,
   <<"[", "1", " ", "2", "]">>,
   <<"[", "(", "'", "a", ".", "p", "y", "'", ",", " ", "1", ",", " ", "2">>,
   <<"[", "'", "a", "b", "c", "d", "'", "]">>,
   <<"[", "'", "a", "b", "'", "]">>,
   <<"[", "(", "'", "a", ".", "p", "y", "'", ",", " ", "1", ",", " ", "2", ",", " ", "3", ")", "]">>,
   <<"[", "(", "'", "a", ".", "p", "y", "'", ",", " ", "1", ",", " ", "2", ")", "]">>,
   <<"[", "(", "'", "a", ".", "p", "y", "'", ",", " ", "'", "m", "1", "'", ")", "]">>,
   <<"[", "(", "'", "b", ".", "p", "y", "'", ",", " ", "'", "m", "1", "'", ")", "]">>,
   <<"{", "'", "a", ".", "p", "y", "'", ":", " ", "1", "}">>,
   <<"{", "'", "p", "a", "s", "s", "e", "d", "'", ":", " ", "1", "}">>,
   <<"[", "'", "p", "a", "s", "s", "e", "d", "'", "]">>,
   <<"'", "p", "a", "s", "s", "e", "d", "'">>}

\* the columns decoded by eval
NestedColumns ==
  {c \in DOMAIN PULL_REQUEST_RELATED_COLUMNS : PULL_REQUEST_RELATED_COLUMNS[c] = "eval"}
    \cup DOMAIN FILE_RELATED_COLUMNS \cup {"check run results"}

\* whether every item of a list or tuple is a str
AllStr(items) == \A i \in DOMAIN items : items[i].t = "str"

\* the shape the collector gives the value of the column
DeclaredShape(column, v) ==
  CASE column = "file versions" ->
         /\ v.t = "dict"
         /\ \A i \in DOMAIN v.items :
              v.items[i].items[1].t = "str" /\ v.items[i].items[2].t = "int"
    [] column = "files changes" ->
         /\ v.t = "list"
         /\ \A i \in DOMAIN v.items :
              /\ v.items[i].t = "tuple"
              /\ Len(v.items[i].items) = 4
              /\ v.items[i].items[1].t = "str"
              /\ \A j \in 2..4 : v.items[i].items[j].t = "int"
    [] column = "review comments msg" ->
         /\ v.t = "list"
         /\ \A i \in DOMAIN v.items :
              /\ v.items[i].t = "tuple"
              /\ Len(v.items[i].items) = 2
              /\ AllStr(v.items[i].items)
    [] OTHER -> v.t = "list" /\ AllStr(v.items)

\* the row with the decoded value of the column in the place of its text
DecodedDatum(datum, column, v) ==
  [datum EXCEPT ![column] = Cell("literal", LoopItems(column, v))]

\* whether the loop body of transform raises on the row
TransformTextRaises(datum, column) ==
  LET r == EvalText(datum[column].val)
      has_files == IF column = "file versions" THEN r.val.items # <<>>
                   ELSE datum["file versions"].val # <<>>
  IN ~r.ok \/ ShapeRaises(column, r.val, has_files)

(***************************************************************************)
(* model/load_data.py: DataLoader for one repository.                      *)
(***************************************************************************)
\* CLData(): no pull request features, no file features, not reverted.
\* pr_level_features None is <<>>; file_level_features keeps its keys in
\* insertion order.
NewCLData ==
  [pr_level_features |-> <<>>,
   file_level_features |-> [keys |-> <<>>, val |-> EmptyDict],
   reverted |-> FALSE]

\* defaultdict(CLData)
EmptyClDataDict == [keys |-> <<>>, val |-> EmptyDict]

\* cl_data_dict[pr_id]: a missing key is inserted with a new CLData
TouchCl(cdd, pr_id) ==
  IF pr_id \in DOMAIN cdd.val THEN cdd
  ELSE [keys |-> Append(cdd.keys, pr_id), val |-> DictPut(cdd.val, pr_id, NewCLData)]

\* a dict assignment d[k] = v that keeps the insertion order of the keys
OrderedPut(d, k, v) ==
  [keys |-> IF k \in DOMAIN d.val THEN d.keys ELSE Append(d.keys, k),
   val |-> DictPut(d.val, k, v)]

\* _count_check_run_passed, _count_check_run_failed: 0 for NaN
count_check_run(lst, outcome) ==
  IF lst.nan THEN 0 ELSE Len(SelectSeq(lst.val, LAMBDA e : e = outcome))

\* _get_pr_level_signals: the row with its two added columns
WithCheckRunCounts(pr_signals) ==
  DictPut(DictPut(pr_signals, "check run passed",
                  Cell("num", count_check_run(pr_signals["check run results"],
                                              "passed"))),
          "check run failed",
          Cell("num", count_check_run(pr_signals["check run results"], "failed")))

COMMON_PR_LEVEL_FEATURES ==
  <<"pull request review time", "num review comments", "num issue comments",
    "num approved reviewers", "num commits", "num line changes",
    "check run passed", "check run failed">>

\* _get_file_names: the set of the names of the files changes; eval(NaN) raises
GetFileNamesRaises(files_changes) == files_changes.nan

get_file_names(files_changes) ==
  {files_changes.val[i][1] : i \in DOMAIN files_changes.val}

\* the rows of a feature table whose 'file name' is file_name
SelectedDf(file_level_signals, file_name) ==
  SelectSeq(file_level_signals, LAMBDA r : r["file name"] = file_name)

\* _get_num_reverted_file
get_num_reverted_file(file_names, file_level_signals) ==
  Cardinality({f \in file_names :
    /\ SelectedDf(file_level_signals, f) # <<>>
    /\ SelectedDf(file_level_signals, f)[1]["reverted pull request id count"] > 0})

\* the loop of _get_file_data over the rows of the feature table from row i:
\* <<cl_data_dict, num_old_files>>
RECURSIVE GetFileDataLoop(_, _, _, _, _, _)
GetFileDataLoop(pr_id, file_names, file_level_signals, cdd, i, num_old_files) ==
  IF i > Len(file_level_signals) THEN <<cdd, num_old_files>>
  ELSE LET file_signals == file_level_signals[i]
           file_name == file_signals["file name"]
           file_data == Append(GetFileData(file_signals)[1],
                               TrueDiv(file_signals["reverted pull request id count"],
                                       file_signals["pull request id count"]))
           t == TouchCl(cdd, pr_id)
       IN IF file_name \in file_names
          THEN GetFileDataLoop(
                 pr_id, file_names, file_level_signals,
                 [t EXCEPT !.val[pr_id].file_level_features =
                             OrderedPut(@, file_name, file_data)],
                 i + 1, num_old_files + 1)
          ELSE GetFileDataLoop(pr_id, file_names, file_level_signals, cdd,
                               i + 1, num_old_files)

\* _get_pr_data
get_pr_data(pr_signals, num_files, num_new_files, num_reverted_file) ==
  [i \in DOMAIN COMMON_PR_LEVEL_FEATURES |-> pr_signals[COMMON_PR_LEVEL_FEATURES[i]].val]
    \o <<num_new_files, num_files, num_reverted_file,
         IF num_reverted_file # 0 THEN 1 ELSE 0,
         TrueDiv(num_reverted_file, num_files)>>

\* closed_date: fromisoformat(closed time[:-1]).strftime("%Y_%m_%d"), the
\* closed time given by the fields <<month, day, hh, mm, ss>> of its text
ClosedDate(closed) ==
  StrfDate(FromIsoFormat(closed[1], closed[2], closed[3], closed[4], closed[5]))

\* a version that marks only a pull request the loop has met already
MarkRevertedIfSeen(cdd, reverted_pr_id) ==
  IF reverted_pr_id # 0 /\ reverted_pr_id \in DOMAIN cdd.val
  THEN [cdd EXCEPT !.val[reverted_pr_id].reverted = TRUE]
  ELSE cdd

\* cl_data_dict[reverted_pr_id].reverted = True, when the id is not 0
MarkReverted(cdd, reverted_pr_id) ==
  IF reverted_pr_id # 0
  THEN [TouchCl(cdd, reverted_pr_id) EXCEPT !.val[reverted_pr_id].reverted = TRUE]
  ELSE cdd

\* One iteration of the loop of _get_cl_data_dict that does not raise.
\* exists: the dates whose feature file os.path.exists finds; tables: the
\* table pd.read_csv reads for a date.
ClDataOfRow(cdd, pr_signals, exists, tables) ==
  LET pr_id == pr_signals["pull request id"].val
      marked == MarkReverted(cdd, pr_signals["reverted pull request id"].val)
      closed_date == ClosedDate(pr_signals["pull request closed time"].val)
      file_names == get_file_names(pr_signals["files changes"])
      num_files == Cardinality(file_names)
      file_level_signals == tables[closed_date]
      filled == GetFileDataLoop(pr_id, file_names, file_level_signals, marked, 1, 0)
  IN IF num_files = 0 THEN marked
     ELSE IF closed_date \notin exists THEN marked
     ELSE [TouchCl(filled[1], pr_id) EXCEPT !.val[pr_id].pr_level_features =
             get_pr_data(pr_signals, num_files, num_files - filled[2],
                         get_num_reverted_file(file_names, file_level_signals))]

\* the loop of load_data over cl_data_dict from key i
RECURSIVE TrainingData(_, _)
TrainingData(cdd, i) ==
  IF i > Len(cdd.keys) THEN <<>>
  ELSE LET cl_data == cdd.val[cdd.keys[i]]
       IN (IF cl_data.pr_level_features = <<>> THEN <<>>
           ELSE << <<cl_data.pr_level_features,
                     [k \in DOMAIN cl_data.file_level_features.keys |->
                        cl_data.file_level_features.val[
                          cl_data.file_level_features.keys[k]]],
                     cl_data.reverted>> >>)
          \o TrainingData(cdd, i + 1)

\* the closed times of the rows: the last second of 2020-07-01 and the first
\* of 2020-07-02
ClosedTimes == {<<7, 1, 23, 59, 59>>, <<7, 2, 0, 0, 0>>}

FeatureDates == {ClosedDate(c) : c \in ClosedTimes}

\* The feature table of a date: a.py with one pull request in its window on
\* 2020-07-01 and two, one of them a revert, on 2020-07-02; b.py in neither.
FeatureTables ==
  [d \in FeatureDates |->
     ExtractFeaturesOf(
       <<WindowRow("a.py", Cell("literal", [i \in 1..d[2] |-> 10 * i]),
                   Cell("literal", <<>>))>>)]

\* the 'pull request review time' of the row of a pull request
ReviewTimeOf(id) == 100 * id + 5

\* The row of the pull request signals table of pull request id: files are
\* the names of its 'files changes', a blank cell when blank.
SignalsRow(id, reverted, closed, files, blank) ==
  WithCheckRunCounts(
    [MkDatum(id, "u1", <<>>, <<>>, <<>>,
             [i \in DOMAIN files |-> FileChange(files[i], i)], <<>>,
             <<"passed", "failed", "passed">>,
             IF blank THEN {"files changes", "num line changes"} ELSE {}, TRUE)
       EXCEPT !["pull request review time"] = Cell("num", ReviewTimeOf(id)),
              !["reverted pull request id"] = Cell("num", reverted),
              !["pull request closed time"] = Cell("text", closed)])

(***************************************************************************)
(* data/data_collection.py: DataCollector._get_check_run_results.          *)
(* The response for a commit is empty (None or {}), or a dict with its     *)
(* total_count and the conclusions of its check_runs.                      *)
(***************************************************************************)
EmptyResponse == [empty |-> TRUE, total_count |-> 0, check_runs |-> <<>>]

CheckRuns(conclusions) ==
  [empty |-> FALSE, total_count |-> Len(conclusions), check_runs |-> conclusions]

\* failed_status: a set of one str, the four names and the commas between them
failed_status == {"failure, cancelled, timed_out, action_required"}

\* the inner loop: 'failed' at the first conclusion in failed_status
RECURSIVE StatusOf(_)
StatusOf(check_runs) ==
  IF check_runs = <<>> THEN "passed"
  ELSE IF check_runs[1] \in failed_status THEN "failed"
  ELSE StatusOf(Tail(check_runs))

\* the loop over the commits
RECURSIVE get_check_run_results(_)
get_check_run_results(responses) ==
  IF responses = <<>> THEN <<>>
  ELSE LET commit_check_run_results == responses[1]
       IN (IF commit_check_run_results.empty THEN <<>>
           ELSE IF commit_check_run_results.total_count = 0 THEN <<"none">>
           ELSE <<StatusOf(commit_check_run_results.check_runs)>>)
          \o get_check_run_results(Tail(responses))

\* the conclusions of a check run
Conclusions ==
  {"success", "failure", "cancelled", "timed_out", "action_required", "skipped"}

\* the responses: none, no check run, one or two check runs
Responses ==
  {EmptyResponse} \cup {CheckRuns(c) : c \in BSeq(Conclusions, 2)}

(***************************************************************************)
(* data/utils.py: get_pull_requests_by_page and get_all_pull_requests.     *)
(* A time is the fields <<month, day, hh, mm, ss>> of an ISO-8601 str of   *)
(* 2020, <<>> is None.  The timestamps are those of a machine on UTC.      *)
(***************************************************************************)
\* to_timestamp(time_str): datetime.fromisoformat(time_str[:-1]).timestamp()
to_timestamp(time) == FromIsoFormat(time[1], time[2], time[3], time[4], time[5])

\* start_date and end_date of the collector
START_DATE2 == <<5, 1, 0, 0, 0>>

END_DATE2 == <<8, 1, 0, 0, 0>>

\* a version of the loop that leaves out a pull request closed at end_date
RECURSIVE FilterPageBeforeEnd(_, _, _)
FilterPageBeforeEnd(json_response, start_date, end_date) ==
  IF json_response = <<>> THEN <<>>
  ELSE LET pull_request_info == json_response[1]
       IN (IF pull_request_info.merged_at = <<>> THEN <<>>
           ELSE IF to_timestamp(start_date) <= to_timestamp(pull_request_info.closed_at)
                   /\ to_timestamp(pull_request_info.closed_at) < to_timestamp(end_date)
           THEN <<pull_request_info>>
           ELSE <<>>)
          \o FilterPageBeforeEnd(Tail(json_response), start_date, end_date)

\* the loop of get_pull_requests_by_page over the response
RECURSIVE FilterPage(_, _, _)
FilterPage(json_response, start_date, end_date) ==
  IF json_response = <<>> THEN <<>>
  ELSE LET pull_request_info == json_response[1]
       IN (IF pull_request_info.merged_at = <<>> THEN <<>>
           ELSE IF to_timestamp(start_date) <= to_timestamp(pull_request_info.closed_at)
                   /\ to_timestamp(pull_request_info.closed_at) <= to_timestamp(end_date)
           THEN <<pull_request_info>>
           ELSE <<>>)
          \o FilterPage(Tail(json_response), start_date, end_date)

\* what get_pull_requests_by_page returns: None, or a list
NoneResult == [none |-> TRUE, list |-> <<>>]

ListResult(list) == [none |-> FALSE, list |-> list]

\* get_pull_requests_by_page, given the response send_request got
get_pull_requests_by_page(json_response, start_date, end_date) ==
  IF json_response = <<>> THEN NoneResult
  ELSE ListResult(FilterPage(json_response, start_date, end_date))

\* a version of the test of the loop that also stops at an empty list
BreaksOnEmpty(pull_requests_by_page) ==
  pull_requests_by_page.none \/ pull_requests_by_page.list = <<>>

\* `if pull_requests_by_page is None: break`
Breaks(pull_requests_by_page) == pull_requests_by_page.none

\* the response of the API for a page: nothing beyond the last page
SendRequest(responses, page) ==
  IF page \in DOMAIN responses THEN responses[page] ELSE <<>>

\* The pull requests of a response: open, closed without a merge, and merged
\* ones closed a second before start_date, at start_date, between the dates,
\* at end_date and a second after it.
PullKinds ==
  {[closed_at |-> <<>>, merged_at |-> <<>>],
   [closed_at |-> <<7, 2, 0, 28, 37>>, merged_at |-> <<>>]}
  \cup {[closed_at |-> c, merged_at |-> c] :
          c \in {<<4, 30, 23, 59, 59>>, <<5, 1, 0, 0, 0>>, <<6, 3, 14, 28, 37>>,
                 <<8, 1, 0, 0, 0>>, <<8, 1, 0, 0, 1>>}}

\* the pages of at most n pull requests and pages together
RECURSIVE PagesOf(_)
PagesOf(n) ==
  IF n <= 0 THEN {<<>>}
  ELSE {<<>>} \cup
       UNION {{<<p>> \o rest : rest \in PagesOf(n - 1 - Len(p))} :
                p \in BSeq(PullKinds, n - 1)}

\* the pull request infos of the pages: number 10 * page + place
Numbered(pages) ==
  [j \in DOMAIN pages |->
     [i \in DOMAIN pages[j] |->
        [number |-> 10 * j + i,
         closed_at |-> pages[j][i].closed_at,
         merged_at |-> pages[j][i].merged_at]]]

\* the pages the API can hold
ListedPages == {Numbered(pages) : pages \in PagesOf(MaxListed)}

(***************************************************************************)
(* data/data_collection.py: the constructor and the setters of             *)
(* DataCollector.  A call gives the attributes after it, and whether it    *)
(* raised ValueError.                                                      *)
(***************************************************************************)
Outcome(self, raised) == [self |-> self, raised |-> raised]

\* DataCollector(repo_name, start_date, end_date, auth, find_all, page)
NewDataCollector(repo_name, start_date, end_date, auth, find_all, page) ==
  IF page < 1 THEN Outcome(<<>>, TRUE)
  ELSE Outcome(<<[_repo_name |-> repo_name, _start_date |-> start_date,
                  _end_date |-> end_date, _auth |-> auth,
                  _find_all |-> find_all, _page |-> page]>>, FALSE)

\* a version of set_page that stores the page before it tests it
set_page_then_test(self, page) ==
  Outcome(<<[self[1] EXCEPT !._page = page]>>, page < 1)

\* DataCollector.set_page
set_page(self, page) ==
  IF page < 1 THEN Outcome(self, TRUE)
  ELSE Outcome(<<[self[1] EXCEPT !._page = page]>>, FALSE)

\* DataCollector.set_all
set_all(self, find_all) == Outcome(<<[self[1] EXCEPT !._find_all = find_all]>>, FALSE)

\* the pages a caller passes
Pages == (0 - 2)..MaxPage

(***************************************************************************)
(* data/data_collection.py: _get_reverted_pull_request_info.  A body is    *)
(* None or a str, a str being the sequence of its characters.              *)
(***************************************************************************)
NoneBody == [none |-> TRUE, text |-> <<>>]

StrBody(text) == [none |-> FALSE, text |-> text]

\* str.lower() on the letters of the bodies
LowerChar(c) ==
  CASE c = "R" -> "r"
    [] c = "E" -> "e"
    [] c = "V" -> "v"
    [] c = "T" -> "t"
    [] c = "F" -> "f"
    [] c = "U" -> "u"
    [] OTHER -> c

Lower(text) == [i \in DOMAIN text |-> LowerChar(text[i])]

\* `sub in text`
Contains(sub, text) ==
  \E i \in 1..(Len(text) - Len(sub) + 1) :
    SubSeq(text, i, i + Len(sub) - 1) = sub

\* the digits text starts with
RECURSIVE DigitRun(_)
DigitRun(text) ==
  IF text # <<>> /\ IsDigit(text[1]) THEN <<text[1]>> \o DigitRun(Tail(text))
  ELSE <<>>

\* re.findall('#[0-9]+', body)
RECURSIVE FindAll(_)
FindAll(body) ==
  IF body = <<>> THEN <<>>
  ELSE IF body[1] = "#" /\ DigitRun(Tail(body)) # <<>>
  THEN LET digits == DigitRun(Tail(body))
       IN <<(<<"#">> \o digits)>>
          \o FindAll(SubSeq(body, Len(digits) + 2, Len(body)))
  ELSE FindAll(Tail(body))

\* re.sub('#', '', match)
StripHash(match) == SelectSeq(match, LAMBDA c : c # "#")

\* int(text) of a str of digits, n being the value of those read
RECURSIVE IntOfDigits(_, _)
IntOfDigits(text, n) ==
  IF text = <<>> THEN n
  ELSE IntOfDigits(Tail(text), 10 * n + DigitValue(text[1]))

\* a version that takes the last reference of the body
LastMatch(matches) == matches[Len(matches)]

\* matches[0]
FirstMatch(matches) == matches[1]

\* get_pull_request_info: <<>> is None (the request failed)
get_pull_request_info(repo, pull_request_number) ==
  IF pull_request_number \in DOMAIN repo
  THEN <<[number |-> pull_request_number, created_at |-> repo[pull_request_number]]>>
  ELSE <<>>

get_reverted_pull_request_info(repo, pull_request_info) ==
  LET body == pull_request_info.body
      pull_request_created_time == to_timestamp(pull_request_info.created_at)
  IN IF ~body.none /\ body.text # <<>>
        /\ Contains(<<"r", "e", "v", "e", "r", "t">>, Lower(body.text))
     THEN LET matches == FindAll(body.text)
          IN IF matches = <<>> THEN <<0, 0>>
             ELSE LET reverted_pull_request_number ==
                        IntOfDigits(StripHash(FirstMatch(matches)), 0)
                      reverted_pull_request_info ==
                        get_pull_request_info(repo, reverted_pull_request_number)
                  IN IF reverted_pull_request_info = <<>> THEN <<0, 0>>
                     ELSE <<reverted_pull_request_number,
                            pull_request_created_time
                              - to_timestamp(reverted_pull_request_info[1].created_at)>>
     ELSE <<0, 0>>

\* the bodies of the pull requests
Bodies ==
  {NoneBody, StrBody(<<>>),
   StrBody(<<"R", "e", "v", "e", "r", "t", " ", "t", "h", "e", " ", "p", "u", "l", "l", " ", "r", "e", "q", "u", "e", "s", "t", " ", "#", "1", "2">>),
   StrBody(<<"R", "e", "v", "e", "r", "t">>),
   StrBody(<<"R", "E", "V", "E", "R", "T", " ", "#", "2">>),
   StrBody(<<"R", "e", "v", "e", "r", "t", "s", " ", "#", "1", " ", "a", "n", "d", " ", "#", "2">>),
   StrBody(<<"F", "i", "x", " ", "#", "1">>),
   StrBody(<<"r", "e", "v", "e", "r", "t", " ", "#", " ", "1">>),
   StrBody(<<"T", "h", "i", "s", " ", "r", "e", "v", "e", "r", "t", "s", " ", "#", "0", "1">>),
   StrBody(<<"r", "e", "v", "e", "r", "t", " ", "#", "0">>),
   StrBody(<<"F", "i", "x", " ", "t", "y", "p", "o">>),
   StrBody(<<"U", "n", "d", "o", " ", "#", "2", ",", " ", "r", "e", "V", "e", "r", "t", "i", "n", "g", " ", "i", "t">>),
   StrBody(<<"#", "2", " ", "r", "e", "v", " ", "e", "r", "t">>),
   StrBody(<<"r", "e", "v", "e", "r", "t", "#", "1", "#", "2">>)}

\* the created_at of the pull requests
CreatedTimes == {<<5, 18, 5, 21, 24>>, <<3, 16, 0, 20, 58>>}

\* the pull requests of the repository that can be retrieved: numbers from 1
Repos ==
  UNION {[numbers -> CreatedTimes] : numbers \in SUBSET {1, 2, 12}}

(***************************************************************************)
(* data/feature_extraction.py: main, which reads the window file of each   *)
(* target date, builds a FeatureExtractor on it and saves its features.    *)
(***************************************************************************)
\* a version of the read that takes the file of the first date for every date
ReadFirstWindow(windows, date) == windows[1]

\* pd.read_csv('./%s_%s.csv' % (repo, date_str))
ReadWindow(windows, date) == windows[date]

\* FeatureExtractor(file_level_data, date)
NewFeatureExtractor(file_level_data, date) ==
  [_file_level_data |-> file_level_data,
   _file_level_features |-> <<>>,
   _date |-> date]

\* FeatureExtractor.extract_features
extract_features(self) ==
  [self EXCEPT !._file_level_features = ExtractFeaturesOf(self._file_level_data)]

\* The window tables of the dates: a.py with one pull request, a.py with two,
\* and a.py and b.py.
WindowSamples ==
  {<<WindowRow("a.py", Cell("literal", <<10>>), Cell("literal", <<>>))>>,
   <<WindowRow("a.py", Cell("literal", <<10, 20>>), Cell("literal", <<>>))>>,
   <<WindowRow("a.py", Cell("literal", <<10>>), Cell("literal", <<>>)),
     WindowRow("b.py", Cell("literal", <<10, 20>>), Cell("literal", <<>>))>>}

(***************************************************************************)
(* data/data_collection.py: collect_signals and the signals CSV.  A row is *)
(* the list of its cells.                                                  *)
(***************************************************************************)
\* the row collect_signals writes to a new signals CSV
SIGNALS_HEADER ==
  <<"repo name", "pull request id", "author", "pull request created time",
    "pull request closed time", "pull request review time",
    "reverted pull request id", "pull request revert time",
    "num review comments", "review comments msg", "num issue comments",
    "issue comments msg", "num approved reviewers", "approved reviewers",
    "num commits", "num line changes", "files changes", "file versions",
    "check run results">>

\* a version that writes the header at every run
HeaderAlways(exists) == TRUE

\* `if not os.path.exists(...)`
HeaderNeeded(exists) == ~exists

\* the datum of a pull request: its first two cells, the others follow from
\* the pull request
DatumOf(pull_request_number) == <<REPO_NAME, ToString(pull_request_number)>>

\* what a run retrieves: None (by page, no response), or pull request numbers
Retrievals ==
  {NoneResult, ListResult(<<>>), ListResult(<<1>>), ListResult(<<1, 2>>),
   ListResult(<<3, 1>>)}

(***************************************************************************)
(* State.                                                                  *)
(***************************************************************************)
VARIABLES
  dt_pr_level_data,     \* DataTransformer: the rows iterated so far
  dt_file_level_data,   \* DataTransformer._file_level_data
  dt_mark,              \* len(_file_level_data) before the last row
  dt_status,            \* "running", or "raised" once an exception escaped
  cr_check_run_results, \* _count_check_run_status: its argument
  cr_returned,          \* _count_check_run_status: <<>>, or <<its result>>
  ag_pr_level_data,     \* DataAggregator: the rows iterated so far
  ag_file_level_data,   \* DataAggregator._file_level_data
  ag_status,            \* "running", "raised", or "saved" after to_df
  ag_df,                \* the DataFrame to_df returned, <<>> before
  win_status,           \* window: "new", "open" with its bounds, "scanned"
  win_date,             \* window: the target date d, a timestamp
  win_range,            \* window: the lookback range r, in days
  win_start,            \* window: its first timestamp
  win_end,              \* window: its last timestamp
  win_closed,           \* window: the closed timestamp of the record examined
  win_included,         \* window: whether that record was included
  rn_lst,               \* remove_nan: the list it is given
  rn_results,           \* remove_nan: <<>>, or <<the list it returned>>
  rd_kind,              \* reduction: the kind of column the cell is of
  rd_lst,               \* reduction: the cell, NaN or the text of a list
  rd_pr_ids,            \* reduction: the Series given to compute_avg_count
  rd_out,               \* reduction: <<>>, or <<the values returned>>
  fe_file_level_data,   \* FeatureExtractor._file_level_data, a window table
  fe_file_level_features, \* FeatureExtractor._file_level_features
  fe_status,            \* "new", or "extracted" after extract_features
  cd_value,             \* stored text: the value of a column of a row
  cd_stored,            \* stored text: <<>>, or <<the field of the CSV file>>
  cd_decoded,           \* stored text: <<>>, or <<what the eval returned>>
  mc_datum,             \* DataTransformer: <<>>, or <<a row with a column's text>>
  mc_column,            \* DataTransformer: the column whose text is given
  mc_status,            \* "new", "read", "raised" or "transformed"
  mc_file_level_data,   \* DataTransformer._file_level_data for that row
  ld_exists,            \* DataLoader: the dates whose feature file exists
  ld_pr_level_signals,  \* DataLoader: the rows _get_cl_data_dict iterated
  ld_cl_data_dict,      \* DataLoader: cl_data_dict of _get_cl_data_dict
  ld_status,            \* "new", "running", "raised", or "loaded"
  ld_training_data,     \* DataLoader: training_data_dict[repo] of load_data
  ck_responses,         \* _get_check_run_results: the response for each commit
  ck_status,            \* "new", "retrieved", or "returned"
  ck_results,           \* _get_check_run_results: the list it returned
  ap_responses,         \* get_all_pull_requests: the pages the API holds
  ap_page,              \* get_all_pull_requests: the page its loop is at
  ap_by_page,           \* <<>>, or <<what get_pull_requests_by_page returned last>>
  ap_pull_requests,     \* get_all_pull_requests: pull_requests
  ap_status,            \* "new", "running", or "returned"
  dc_self,              \* DataCollector: <<>>, or <<the attributes of the object>>
  dc_last,              \* DataCollector: the last call, its page and whether it raised
  dc_calls,             \* DataCollector: the calls made so far
  rv_info,              \* _get_reverted_pull_request_info: <<>>, or <<the pull request info>>
  rv_repo,              \* the created_at of the pull requests that can be retrieved
  rv_result,            \* <<>>, or the pair _get_reverted_pull_request_info returned
  fx_windows,           \* main: <<>>, or the window table stored for each target date
  fx_pc,                \* main: how far the work on each target date is
  fx_extractors,        \* main: the FeatureExtractor of each target date, <<>> if none
  fx_features,          \* main: the features file of each target date, <<>> if none
  cs_exists,            \* collect_signals: whether the signals CSV exists
  cs_file,              \* collect_signals: the rows of the signals CSV
  cs_pc,                \* collect_signals: "idle", "started" or "writing"
  cs_pull_requests,     \* collect_signals: pull_requests of the run
  cs_i,                 \* collect_signals: the place of the loop in pull_requests
  cs_runs,              \* the runs of collect_signals started so far
  cs_before             \* the rows of the signals CSV when the run started

dt_vars == <<dt_pr_level_data, dt_file_level_data, dt_mark, dt_status>>

cr_vars == <<cr_check_run_results, cr_returned>>

ag_vars == <<ag_pr_level_data, ag_file_level_data, ag_status, ag_df>>

win_vars ==
  <<win_status, win_date, win_range, win_start, win_end, win_closed, win_included>>

rn_vars == <<rn_lst, rn_results>>

\* the variables of the functions that work on one value
rd_vars == <<rd_kind, rd_lst, rd_pr_ids, rd_out>>

fe_vars == <<fe_file_level_data, fe_file_level_features, fe_status>>

cd_vars == <<cd_value, cd_stored, cd_decoded>>

fn_vars == <<rn_vars, rd_vars, fe_vars, cd_vars>>

mc_vars == <<mc_datum, mc_column, mc_status, mc_file_level_data>>

\* the variables of the components before the collector and the loader
base_vars == <<dt_vars, cr_vars, ag_vars, win_vars, fn_vars>>

ld_vars ==
  <<ld_exists, ld_pr_level_signals, ld_cl_data_dict, ld_status, ld_training_data>>

ck_vars == <<ck_responses, ck_status, ck_results>>

ap_vars == <<ap_responses, ap_page, ap_by_page, ap_pull_requests, ap_status>>

dc_vars == <<dc_self, dc_last, dc_calls>>

rv_vars == <<rv_info, rv_repo, rv_result>>

fx_vars == <<fx_windows, fx_pc, fx_extractors, fx_features>>

cs_vars == <<cs_exists, cs_file, cs_pc, cs_pull_requests, cs_i, cs_runs, cs_before>>

rest_vars == <<mc_vars, ld_vars, ck_vars, ap_vars, dc_vars, rv_vars, fx_vars, cs_vars>>

\* what an action on one group of variables leaves alone
mc_frame == <<base_vars, ld_vars, ck_vars, ap_vars, dc_vars, rv_vars, fx_vars, cs_vars>>

ld_frame == <<base_vars, mc_vars, ck_vars, ap_vars, dc_vars, rv_vars, fx_vars, cs_vars>>

ck_frame == <<base_vars, mc_vars, ld_vars, ap_vars, dc_vars, rv_vars, fx_vars, cs_vars>>

ap_frame == <<base_vars, mc_vars, ld_vars, ck_vars, dc_vars, rv_vars, fx_vars, cs_vars>>

dc_frame == <<base_vars, mc_vars, ld_vars, ck_vars, ap_vars, rv_vars, fx_vars, cs_vars>>

rv_frame == <<base_vars, mc_vars, ld_vars, ck_vars, ap_vars, dc_vars, fx_vars, cs_vars>>

fx_frame == <<base_vars, mc_vars, ld_vars, ck_vars, ap_vars, dc_vars, rv_vars, cs_vars>>

cs_frame == <<base_vars, mc_vars, ld_vars, ck_vars, ap_vars, dc_vars, rv_vars, fx_vars>>

vars == <<dt_vars, cr_vars, ag_vars, win_vars, fn_vars, rest_vars>>

DtInit ==
  /\ dt_pr_level_data = <<>>
  /\ dt_file_level_data = <<>>
  /\ dt_mark = 0
  /\ dt_status = "running"

CrInit ==
  /\ cr_check_run_results = <<>>
  /\ cr_returned = <<>>

AgInit ==
  /\ ag_pr_level_data = <<>>
  /\ ag_file_level_data = EmptyFileDataDict
  /\ ag_status = "running"
  /\ ag_df = <<>>

WinInit ==
  /\ win_status = "new"
  /\ win_date = 0
  /\ win_range = 0
  /\ win_start = 0
  /\ win_end = 0
  /\ win_closed = 0
  /\ win_included = FALSE

RnInit ==
  /\ rn_lst = <<>>
  /\ rn_results = <<>>

RdInit ==
  /\ rd_kind = "numbers"
  /\ rd_lst = NaNCell
  /\ rd_pr_ids = <<>>
  /\ rd_out = <<>>

\* FeatureExtractor(file_level_data, date) on the table without rows
FeInit ==
  /\ fe_file_level_data = <<>>
  /\ fe_file_level_features = <<>>
  /\ fe_status = "new"

CdInit ==
  /\ cd_value = NoneV
  /\ cd_stored = <<>>
  /\ cd_decoded = <<>>

FnInit == RnInit /\ RdInit /\ FeInit /\ CdInit

McInit ==
  /\ mc_datum = <<>>
  /\ mc_column = "file versions"
  /\ mc_status = "new"
  /\ mc_file_level_data = <<>>

LdInit ==
  /\ ld_exists = {}
  /\ ld_pr_level_signals = <<>>
  /\ ld_cl_data_dict = EmptyClDataDict
  /\ ld_status = "new"
  /\ ld_training_data = <<>>

CkInit ==
  /\ ck_responses = <<>>
  /\ ck_status = "new"
  /\ ck_results = <<>>

ApInit ==
  /\ ap_responses = <<>>
  /\ ap_page = 1
  /\ ap_by_page = <<>>
  /\ ap_pull_requests = <<>>
  /\ ap_status = "new"

DcInit ==
  /\ dc_self = <<>>
  /\ dc_last = [op |-> "none", page |-> 1, raised |-> FALSE]
  /\ dc_calls = 0

RvInit ==
  /\ rv_info = <<>>
  /\ rv_repo = <<>>
  /\ rv_result = <<>>

FxInit ==
  /\ fx_windows = <<>>
  /\ fx_pc = [d \in 1..MaxDates |-> "todo"]
  /\ fx_extractors = [d \in 1..MaxDates |-> <<>>]
  /\ fx_features = [d \in 1..MaxDates |-> <<>>]

CsInit ==
  /\ cs_exists = FALSE
  /\ cs_file = <<>>
  /\ cs_pc = "idle"
  /\ cs_pull_requests = ListResult(<<>>)
  /\ cs_i = 1
  /\ cs_runs = 0
  /\ cs_before = <<>>

RestInit == McInit /\ LdInit /\ CkInit /\ ApInit /\ DcInit /\ RvInit /\ FxInit /\ CsInit

(***************************************************************************)
(* DataTransformer.transform over the rows of a table.                     *)
(***************************************************************************)
\* one iteration of the loop of DataTransformer.transform
TransformRow(datum) ==
  /\ dt_status = "running"
  /\ TableSize(dt_pr_level_data) + DatumSize(datum) <= MaxSize
  /\ dt_pr_level_data' = Append(dt_pr_level_data, datum)
  /\ dt_mark' = Len(dt_file_level_data)
  /\ IF TransformRaises(datum)
     THEN /\ dt_status' = "raised"
          /\ UNCHANGED dt_file_level_data
     ELSE /\ dt_status' = "running"
          /\ dt_file_level_data' =
               dt_file_level_data \o FileDataOf(FileDataDictOf(datum))
  /\ UNCHANGED <<cr_vars, ag_vars, win_vars, fn_vars, rest_vars>>

\* the next row of the table
Transform ==
  LET left == MaxSize - TableSize(dt_pr_level_data) - 1
  IN \E fv \in FileVersionsOf(left) :
     \E fc \in FilesChangesOf(left - Len(fv)) :
     \E rc \in ReviewCommentsOf(left - Len(fv) - Len(fc)) :
     \E cr \in BSeq(Statuses, left - Len(fv) - Len(fc) - Len(rc)) :
     \E ar \in ApprovedReviewersOf(left - Len(fv) - Len(fc) - Len(rc) - Len(cr)) :
     \E author \in Authors :
     \E nans \in IF fc = <<>>
                  THEN {{}, {"files changes", "num line changes"}} ELSE {{}} :
       TransformRow(MkDatum(Len(dt_pr_level_data) + 1, author, rc, <<>>, ar,
                            fc, fv, cr, nans, TRUE))

Init == DtInit /\ CrInit /\ AgInit /\ WinInit /\ FnInit /\ RestInit

Next == Transform

Spec == Init /\ [][Next]_vars

(***************************************************************************)
(* _count_check_run_status on every list of outcomes, the outcomes the     *)
(* collector writes and others.                                            *)
(***************************************************************************)
CountInit ==
  /\ DtInit
  /\ AgInit
  /\ WinInit
  /\ RestInit
  /\ FnInit
  /\ cr_check_run_results \in BSeq(Statuses \cup OtherStatuses, MaxRuns)
  /\ cr_returned = <<>>

CountCheckRunStatus ==
  /\ cr_returned = <<>>
  /\ cr_returned' = <<count_check_run_status(cr_check_run_results)>>
  /\ UNCHANGED <<cr_check_run_results, dt_vars, ag_vars, win_vars, fn_vars, rest_vars>>

CountNext == CountCheckRunStatus

SpecCount == CountInit /\ [][CountNext]_vars

(***************************************************************************)
(* DataAggregator.aggregate over the rows of a table, then to_df.          *)
(***************************************************************************)
\* one iteration of the loop of DataAggregator.aggregate
AggregateRow(datum) ==
  /\ ag_status = "running"
  /\ AggTableSize(ag_pr_level_data) + AggDatumSize(datum) <= MaxAggSize
  /\ ag_pr_level_data' = Append(ag_pr_level_data, datum)
  /\ IF AggregateRaises(datum)
     THEN /\ ag_status' = "raised"
          /\ UNCHANGED ag_file_level_data
     ELSE /\ ag_status' = "running"
          /\ ag_file_level_data' = AggregateDatum(ag_file_level_data, datum)
  /\ UNCHANGED <<ag_df, dt_vars, cr_vars, win_vars, fn_vars, rest_vars>>

\* the next row of the table
Aggregate ==
  LET left == MaxAggSize - AggTableSize(ag_pr_level_data) - 1
      id == Len(ag_pr_level_data) + 1
  IN \E fv \in AggFileVersionsOf(id, left) :
     \E fc \in FilesChangesOf(left - Len(fv)) :
     \E rc \in AggReviewCommentsOf(id, left - Len(fv) - Len(fc)) :
     \E ic \in IssueCommentsOf(id, left - Len(fv) - Len(fc) - Len(rc)) :
     \E ar \in ApprovedReviewersOf(left - Len(fv) - Len(fc) - Len(rc) - Len(ic)) :
     \E cr \in CheckRunSamples :
     \E author \in Authors :
     \E nans \in {{}} \cup (IF fc = <<>>
                           THEN {{"files changes", "num line changes"}} ELSE {})
                     \cup (IF ar = <<>> THEN {{"approved reviewers"}} ELSE {})
                     \cup (IF ic = <<>> THEN {{"issue comments msg"}} ELSE {}) :
     \E iso \in BOOLEAN :
       AggregateRow(MkDatum(id, author, rc, ic, ar, fc, fv, cr, nans, iso))

\* the end of aggregate, and to_df on its result
AggregateToDf ==
  /\ ag_status = "running"
  /\ ag_status' = "saved"
  /\ ag_df' = ToDf(ag_file_level_data)
  /\ UNCHANGED <<ag_pr_level_data, ag_file_level_data, dt_vars, cr_vars, win_vars, fn_vars, rest_vars>>

AggregateNext == Aggregate \/ AggregateToDf

SpecAggregate == Init /\ [][AggregateNext]_vars

(***************************************************************************)
(* The historical window: its bounds for a target date and a range, then   *)
(* the records of the population, one at a time.                           *)
(***************************************************************************)
\* the bounds of the window of target date d and range r
WindowBounds ==
  /\ win_status = "new"
  /\ \E d \in TargetDates, r \in 1..MaxRange :
       /\ win_date' = d
       /\ win_range' = r
       /\ win_start' = WindowStart(d, r)
       /\ win_end' = WindowEnd(d)
  /\ win_status' = "open"
  /\ UNCHANGED <<win_closed, win_included, dt_vars, cr_vars, ag_vars, fn_vars, rest_vars>>

\* a record is included iff start <= closed_timestamp(parent PR) <= end
WindowInclude ==
  /\ win_status \in {"open", "scanned"}
  /\ \E day \in (DayOf(win_date) - win_range - 2)..(DayOf(win_date) + 1) :
     \E time \in TimesOfDay :
       LET closed == day * SecondsPerDay + time
       IN /\ win_closed' = closed
          /\ win_included' = (win_start <= closed /\ closed <= win_end)
  /\ win_status' = "scanned"
  /\ UNCHANGED <<win_date, win_range, win_start, win_end, dt_vars, cr_vars, ag_vars,
               fn_vars, rest_vars>>

WindowNext == WindowBounds \/ WindowInclude

SpecWindow == Init /\ [][WindowNext]_vars

(***************************************************************************)
(* remove_nan on every list of numbers, None and NaN.                      *)
(***************************************************************************)
RemoveNanInit ==
  /\ DtInit
  /\ CrInit
  /\ AgInit
  /\ WinInit
  /\ RestInit
  /\ RdInit
  /\ FeInit
  /\ CdInit
  /\ rn_lst \in BSeq(NanEntries, MaxNanLen)
  /\ rn_results = <<>>

RemoveNan ==
  /\ rn_results = <<>>
  /\ rn_results' = <<remove_nan(rn_lst)>>
  /\ UNCHANGED <<rn_lst, dt_vars, cr_vars, ag_vars, win_vars, rd_vars, fe_vars, cd_vars, rest_vars>>

RemoveNanNext == RemoveNan

SpecRemoveNan == RemoveNanInit /\ [][RemoveNanNext]_vars

(***************************************************************************)
(* The reduction functions of FeatureExtractor on the cells of each kind   *)
(* of column.                                                              *)
(***************************************************************************)
ReduceInit ==
  /\ DtInit
  /\ CrInit
  /\ AgInit
  /\ WinInit
  /\ RestInit
  /\ RnInit
  /\ FeInit
  /\ CdInit
  /\ rd_out = <<>>
  /\ \/ /\ rd_kind = "numbers"
        /\ rd_lst \in CellsOf(NumberEntries, MaxListLen)
        /\ rd_pr_ids = <<>>
     \/ /\ rd_kind = "check run results"
        /\ rd_lst \in CellsOf(CheckRunEntries, MaxTuples)
        /\ rd_pr_ids = <<>>
     \/ /\ rd_kind = "files changes"
        /\ rd_lst \in CellsOf(FileChangeEntries, MaxTuples)
        /\ rd_pr_ids = <<>>
     \/ /\ rd_kind = "review comments msg"
        /\ rd_lst \in CellsOf(CommentEntries, 2)
        /\ rd_pr_ids \in {[i \in 1..k |-> i] : k \in 0..MaxSeries}

\* the functions of _function_map on a cell of a column of numbers
ReduceNumbers ==
  /\ rd_kind = "numbers"
  /\ rd_out = <<>>
  /\ rd_out' = <<[count |-> compute_count(rd_lst),
                  avg |-> compute_avg(rd_lst),
                  sum |-> compute_sum(rd_lst),
                  nonzero_count |-> compute_nonzero_count(rd_lst),
                  nonzero_avg |-> compute_nonzero_avg(rd_lst),
                  nonzero_sum |-> compute_nonzero_sum(rd_lst)]>>
  /\ UNCHANGED <<rd_kind, rd_lst, rd_pr_ids, rn_vars, dt_vars, cr_vars, ag_vars,
                 win_vars, fe_vars, cd_vars, rest_vars>>

\* the functions of _function_map_with_args on a cell of 'check run results'
ReduceCheckRuns ==
  /\ rd_kind = "check run results"
  /\ rd_out = <<>>
  /\ rd_out' = <<[total |-> [i \in 0..1 |-> compute_total_check_runs(rd_lst, i)],
                  avg |-> [i \in 0..1 |-> compute_avg_check_runs(rd_lst, i)]]>>
  /\ UNCHANGED <<rd_kind, rd_lst, rd_pr_ids, rn_vars, dt_vars, cr_vars, ag_vars,
                 win_vars, fe_vars, cd_vars, rest_vars>>

\* the functions of _function_map_with_args on a cell of 'files changes'
ReduceFilesChanges ==
  /\ rd_kind = "files changes"
  /\ rd_out = <<>>
  /\ rd_out' = <<[total |-> [i \in 0..2 |-> compute_total_file_changes(rd_lst, i)],
                  avg |-> [i \in 0..2 |-> compute_avg_file_changes(rd_lst, i)]]>>
  /\ UNCHANGED <<rd_kind, rd_lst, rd_pr_ids, rn_vars, dt_vars, cr_vars, ag_vars,
                 win_vars, fe_vars, cd_vars, rest_vars>>

\* compute_avg_count on a cell of 'review comments msg' and a Series
ReduceComments ==
  /\ rd_kind = "review comments msg"
  /\ rd_out = <<>>
  /\ rd_out' = <<[avg_count |-> compute_avg_count(rd_lst, rd_pr_ids)]>>
  /\ UNCHANGED <<rd_kind, rd_lst, rd_pr_ids, rn_vars, dt_vars, cr_vars, ag_vars,
                 win_vars, fe_vars, cd_vars, rest_vars>>

ReduceNext ==
  ReduceNumbers \/ ReduceCheckRuns \/ ReduceFilesChanges \/ ReduceComments

SpecReduce == ReduceInit /\ [][ReduceNext]_vars

(***************************************************************************)
(* FeatureExtractor on a window table, then the loader on its features.    *)
(***************************************************************************)
\* pd.read_csv of the window file of a date: a row for each of some files
ReadWindowTable ==
  /\ fe_status = "new"
  /\ Len(fe_file_level_data) < Cardinality(Files)
  /\ \E file \in Files \ {fe_file_level_data[i]["file name"] :
                              i \in DOMAIN fe_file_level_data} :
     \E ids \in IdCells(MaxIds) :
     \E msgs \in CellsOf(CommentEntries, 2) :
       fe_file_level_data' = Append(fe_file_level_data, WindowRow(file, ids, msgs))
  /\ UNCHANGED <<fe_file_level_features, fe_status, rn_vars, rd_vars, dt_vars,
                 cr_vars, ag_vars, win_vars, cd_vars, rest_vars>>

ExtractFeatures ==
  /\ fe_status = "new"
  /\ fe_file_level_features' = ExtractFeaturesOf(fe_file_level_data)
  /\ fe_status' = "extracted"
  /\ UNCHANGED <<fe_file_level_data, rn_vars, rd_vars, dt_vars, cr_vars, ag_vars,
                 win_vars, cd_vars, rest_vars>>

ExtractNext == ReadWindowTable \/ ExtractFeatures

SpecExtract == Init /\ [][ExtractNext]_vars

(***************************************************************************)
(* A nested value written to a CSV file and read back by the next stage.   *)
(***************************************************************************)
StoreInit ==
  /\ DtInit
  /\ CrInit
  /\ AgInit
  /\ WinInit
  /\ RestInit
  /\ RnInit
  /\ RdInit
  /\ FeInit
  /\ cd_value \in {NoneV} \cup ScalarLists(MaxItems) \cup PairLists(MaxItems)
                  \cup TripleLists(MaxItems) \cup FileChangeLists(MaxItems)
                  \cup Mappings(MaxItems)
  /\ cd_stored = <<>>
  /\ cd_decoded = <<>>

\* writer.writerow(datum), df.to_csv: the field of the value
StoreValue ==
  /\ cd_stored = <<>>
  /\ cd_stored' = <<StoredText(cd_value)>>
  /\ UNCHANGED <<cd_value, cd_decoded, rn_vars, rd_vars, fe_vars, dt_vars, cr_vars,
                 ag_vars, win_vars, rest_vars>>

\* pd.read_csv, then eval(datum[column]) in _get_value_dict
LoadValue ==
  /\ cd_stored # <<>>
  /\ cd_decoded = <<>>
  /\ cd_decoded' = <<EvalCell(CellOfText(CsvRead(cd_stored[1])))>>
  /\ UNCHANGED <<cd_value, cd_stored, rn_vars, rd_vars, fe_vars, dt_vars, cr_vars,
                 ag_vars, win_vars, rest_vars>>

StoreNext == StoreValue \/ LoadValue

SpecStore == StoreInit /\ [][StoreNext]_vars

(***************************************************************************)
(* DataTransformer.transform on a row with a given text in a nested column.*)
(***************************************************************************)
\* pd.read_csv(file): the row, the text as it is stored
ReadTextRow ==
  /\ mc_status = "new"
  /\ \E column \in NestedColumns, text \in ColumnTexts :
     \E fv \in {<<>>, <<<<"a.py", 1>>>>} :
       /\ mc_column' = column
       /\ mc_datum' =
            <<[MkDatum(1, "u1", <<>>, <<>>, <<"r1">>, <<>>, fv, <<"passed">>, {}, TRUE)
                 EXCEPT ![column] = Cell("source", text)]>>
  /\ mc_status' = "read"
  /\ UNCHANGED <<mc_file_level_data, mc_frame>>

\* the iteration of the loop of transform on that row
TransformText ==
  /\ mc_status = "read"
  /\ IF TransformTextRaises(mc_datum[1], mc_column)
     THEN /\ mc_status' = "raised"
          /\ UNCHANGED mc_file_level_data
     ELSE /\ mc_status' = "transformed"
          /\ mc_file_level_data' =
               FileDataOf(FileDataDictOf(
                 DecodedDatum(mc_datum[1], mc_column,
                              EvalText(mc_datum[1][mc_column].val).val)))
  /\ UNCHANGED <<mc_datum, mc_column, mc_frame>>

MalformedNext == ReadTextRow \/ TransformText

SpecMalformed == Init /\ [][MalformedNext]_vars

(***************************************************************************)
(* DataLoader.load_data for one repository.                                *)
(***************************************************************************)
\* the feature files on disk when the loader starts
ListFeatureFiles ==
  /\ ld_status = "new"
  /\ ld_exists' \in SUBSET FeatureDates
  /\ ld_status' = "running"
  /\ UNCHANGED <<ld_pr_level_signals, ld_cl_data_dict, ld_training_data, ld_frame>>

\* one iteration of the loop of _get_cl_data_dict on pr_signals
ClDataRow(pr_signals) ==
  /\ ld_status = "running"
  /\ ld_pr_level_signals' = Append(ld_pr_level_signals, pr_signals)
  /\ IF GetFileNamesRaises(pr_signals["files changes"])
     THEN /\ ld_status' = "raised"
          /\ ld_cl_data_dict' =
               MarkReverted(ld_cl_data_dict,
                            pr_signals["reverted pull request id"].val)
     ELSE /\ ld_status' = "running"
          /\ ld_cl_data_dict' =
               ClDataOfRow(ld_cl_data_dict, pr_signals, ld_exists, FeatureTables)
  /\ UNCHANGED <<ld_exists, ld_training_data, ld_frame>>

\* the next row of the table: its id is its place in the table, it reverts
\* nothing, the row before it, the row after it, or a pull request that is
\* not in the table
GetClDataDict ==
  /\ Len(ld_pr_level_signals) < MaxPrs
  /\ LET id == Len(ld_pr_level_signals) + 1
     IN \E reverted \in {0, id - 1, id + 1, 9} :
        \E closed \in ClosedTimes :
        \E files \in {<<>>, <<"a.py", "b.py">>} :
        \E blank \in IF files = <<>> THEN BOOLEAN ELSE {FALSE} :
          ClDataRow(SignalsRow(id, reverted, closed, files, blank))

\* the loop of load_data over cl_data_dict, once _get_cl_data_dict returned
LoadData ==
  /\ ld_status = "running"
  /\ ld_status' = "loaded"
  /\ ld_training_data' = TrainingData(ld_cl_data_dict, 1)
  /\ UNCHANGED <<ld_exists, ld_pr_level_signals, ld_cl_data_dict, ld_frame>>

LoadNext == ListFeatureFiles \/ GetClDataDict \/ LoadData

SpecLoad == Init /\ [][LoadNext]_vars

(***************************************************************************)
(* DataCollector._get_check_run_results on the commits of a pull request.  *)
(***************************************************************************)
\* get_commit_check_runs for each commit of the pull request
RetrieveCheckRuns ==
  /\ ck_status = "new"
  /\ ck_responses' \in BSeq(Responses, MaxCommits)
  /\ ck_status' = "retrieved"
  /\ UNCHANGED <<ck_results, ck_frame>>

GetCheckRunResults ==
  /\ ck_status = "retrieved"
  /\ ck_results' = get_check_run_results(ck_responses)
  /\ ck_status' = "returned"
  /\ UNCHANGED <<ck_responses, ck_frame>>

CheckRunsNext == RetrieveCheckRuns \/ GetCheckRunResults

SpecCheckRuns == Init /\ [][CheckRunsNext]_vars

(***************************************************************************)
(* get_all_pull_requests: one request per page until the response is       *)
(* empty.                                                                  *)
(***************************************************************************)
\* the pull requests of the repository, as the API pages them
ListPullRequests ==
  /\ ap_status = "new"
  /\ ap_responses' \in ListedPages
  /\ ap_status' = "running"
  /\ UNCHANGED <<ap_page, ap_by_page, ap_pull_requests, ap_frame>>

\* one iteration of the loop of get_all_pull_requests
GetPage ==
  /\ ap_status = "running"
  /\ LET pull_requests_by_page ==
           get_pull_requests_by_page(SendRequest(ap_responses, ap_page),
                                     START_DATE2, END_DATE2)
     IN /\ ap_by_page' = <<pull_requests_by_page>>
        /\ IF Breaks(pull_requests_by_page)
           THEN /\ ap_status' = "returned"
                /\ UNCHANGED <<ap_page, ap_pull_requests>>
           ELSE /\ ap_pull_requests' = ap_pull_requests \o pull_requests_by_page.list
                /\ ap_page' = ap_page + 1
                /\ UNCHANGED ap_status
  /\ UNCHANGED <<ap_responses, ap_frame>>

PagesNext == ListPullRequests \/ GetPage

\* the loop runs on: nothing else runs in the process
SpecPages == Init /\ [][PagesNext]_vars /\ WF_vars(PagesNext)

(***************************************************************************)
(* DataCollector: construction and the setters.                            *)
(***************************************************************************)
Construct ==
  /\ dc_self = <<>>
  /\ dc_calls < MaxCalls
  /\ \E page \in Pages, find_all \in BOOLEAN, auth \in {<<>>, <<"user", "token">>} :
       LET out == NewDataCollector("mock", "2000-01-01T00:00:00Z",
                                   "2010-01-01T00:00:00Z", auth, find_all, page)
       IN /\ dc_self' = out.self
          /\ dc_last' = [op |-> "init", page |-> page, raised |-> out.raised]
  /\ dc_calls' = dc_calls + 1
  /\ UNCHANGED dc_frame

SetPage ==
  /\ dc_self # <<>>
  /\ dc_calls < MaxCalls
  /\ \E page \in Pages :
       LET out == set_page(dc_self, page)
       IN /\ dc_self' = out.self
          /\ dc_last' = [op |-> "set_page", page |-> page, raised |-> out.raised]
  /\ dc_calls' = dc_calls + 1
  /\ UNCHANGED dc_frame

SetAll ==
  /\ dc_self # <<>>
  /\ dc_calls < MaxCalls
  /\ \E find_all \in BOOLEAN :
       LET out == set_all(dc_self, find_all)
       IN /\ dc_self' = out.self
          /\ dc_last' = [op |-> "set_all", page |-> dc_self[1]._page, raised |-> out.raised]
  /\ dc_calls' = dc_calls + 1
  /\ UNCHANGED dc_frame

CollectorNext == Construct \/ SetPage \/ SetAll

SpecCollector == Init /\ [][CollectorNext]_vars

(***************************************************************************)
(* _get_reverted_pull_request_info on one pull request.                    *)
(***************************************************************************)
\* the pull request info that is passed, and what the API can retrieve
RetrievePullRequest ==
  /\ rv_info = <<>>
  /\ \E body \in Bodies, created_at \in CreatedTimes :
       rv_info' = <<[number |-> 58, created_at |-> created_at, body |-> body]>>
  /\ rv_repo' \in Repos
  /\ UNCHANGED <<rv_result, rv_frame>>

GetRevertedPullRequestInfo ==
  /\ rv_info # <<>>
  /\ rv_result = <<>>
  /\ rv_result' = get_reverted_pull_request_info(rv_repo, rv_info[1])
  /\ UNCHANGED <<rv_info, rv_repo, rv_frame>>

RevertedNext == RetrievePullRequest \/ GetRevertedPullRequestInfo

SpecReverted == Init /\ [][RevertedNext]_vars

(***************************************************************************)
(* main of the feature extraction.  The code takes the dates one after     *)
(* the other; here the steps of the dates are taken in any order, the      *)
(* order of the code being one of them.                                    *)
(***************************************************************************)
\* the window files the aggregation left on disk, one for each target date
ListWindowFiles ==
  /\ fx_windows = <<>>
  /\ fx_windows' \in [1..MaxDates -> WindowSamples]
  /\ UNCHANGED <<fx_pc, fx_extractors, fx_features, fx_frame>>

\* file_level_data = pd.read_csv(file_name); FeatureExtractor(...)
ReadWindowFile(d) ==
  /\ fx_windows # <<>>
  /\ fx_pc[d] = "todo"
  /\ fx_extractors' =
       [fx_extractors EXCEPT ![d] = <<NewFeatureExtractor(ReadWindow(fx_windows, d), d)>>]
  /\ fx_pc' = [fx_pc EXCEPT ![d] = "read"]
  /\ UNCHANGED <<fx_windows, fx_features, fx_frame>>

\* feature_extractor.extract_features()
ExtractDate(d) ==
  /\ fx_pc[d] = "read"
  /\ fx_extractors' = [fx_extractors EXCEPT ![d] = <<extract_features(fx_extractors[d][1])>>]
  /\ fx_pc' = [fx_pc EXCEPT ![d] = "extracted"]
  /\ UNCHANGED <<fx_windows, fx_features, fx_frame>>

\* feature_extractor.save_to_csv(...)
SaveFeatures(d) ==
  /\ fx_pc[d] = "extracted"
  /\ fx_features' = [fx_features EXCEPT ![d] = <<fx_extractors[d][1]._file_level_features>>]
  /\ fx_pc' = [fx_pc EXCEPT ![d] = "saved"]
  /\ UNCHANGED <<fx_windows, fx_extractors, fx_frame>>

DatesNext ==
  \/ ListWindowFiles
  \/ \E d \in 1..MaxDates : ReadWindowFile(d)
  \/ \E d \in 1..MaxDates : ExtractDate(d)
  \/ \E d \in 1..MaxDates : SaveFeatures(d)

SpecDates == Init /\ [][DatesNext]_vars

(***************************************************************************)
(* Runs of collect_signals on one repository, one after the other.         *)
(***************************************************************************)
\* the start of a run: the header, when the file does not exist
StartCollect ==
  /\ cs_pc = "idle"
  /\ cs_runs < MaxCollects
  /\ cs_runs' = cs_runs + 1
  /\ cs_before' = cs_file
  /\ IF HeaderNeeded(cs_exists)
     THEN /\ cs_file' = Append(cs_file, SIGNALS_HEADER)
          /\ cs_exists' = TRUE
     ELSE UNCHANGED <<cs_file, cs_exists>>
  /\ cs_pc' = "started"
  /\ UNCHANGED <<cs_pull_requests, cs_i, cs_frame>>

\* get_all_pull_requests or get_pull_requests_by_page; return on None
RetrieveToCollect ==
  /\ cs_pc = "started"
  /\ \E pull_requests \in Retrievals :
       /\ cs_pull_requests' = pull_requests
       /\ cs_pc' = IF pull_requests.none THEN "idle" ELSE "writing"
  /\ cs_i' = 1
  /\ UNCHANGED <<cs_exists, cs_file, cs_runs, cs_before, cs_frame>>

\* one iteration of the loop: the datum of the pull request is appended
WriteDatum ==
  /\ cs_pc = "writing"
  /\ cs_i <= Len(cs_pull_requests.list)
  /\ cs_file' = Append(cs_file, DatumOf(cs_pull_requests.list[cs_i]))
  /\ cs_exists' = TRUE
  /\ cs_i' = cs_i + 1
  /\ UNCHANGED <<cs_pc, cs_pull_requests, cs_runs, cs_before, cs_frame>>

\* the loop is over and the run returns
EndCollect ==
  /\ cs_pc = "writing"
  /\ cs_i > Len(cs_pull_requests.list)
  /\ cs_pc' = "idle"
  /\ UNCHANGED <<cs_exists, cs_file, cs_pull_requests, cs_i, cs_runs, cs_before,
                 cs_frame>>

\* a request of _collect_signals_for_one_pull_request ends the process
\* (send_request raises SystemExit) before the datum is written
CollectRaises ==
  /\ cs_pc = "writing"
  /\ cs_i <= Len(cs_pull_requests.list)
  /\ cs_pc' = "idle"
  /\ UNCHANGED <<cs_exists, cs_file, cs_pull_requests, cs_i, cs_runs, cs_before,
                 cs_frame>>

CollectNext ==
  StartCollect \/ RetrieveToCollect \/ WriteDatum \/ EndCollect \/ CollectRaises

SpecCollect == Init /\ [][CollectNext]_vars

(***************************************************************************)
(* The claims about DataTransformer.                                       *)
(***************************************************************************)
\* the last row iterated, once it was transformed without an exception
Transformed == dt_pr_level_data # <<>> /\ dt_status = "running"

LastDatum == dt_pr_level_data[Len(dt_pr_level_data)]

\* the file records the last row appended to _file_level_data
Emitted == SubSeq(dt_file_level_data, dt_mark + 1, Len(dt_file_level_data))

LastFileVersions == LastDatum["file versions"].val

LastFilesChanges == LastDatum["files changes"].val

LastReviewComments == LastDatum["review comments msg"].val

LastKeys == {LastFileVersions[i][1] : i \in DOMAIN LastFileVersions}

\* the texts of the review comments addressed to file f, in input order
RECURSIVE MsgsOf(_, _)
MsgsOf(review_comments_msg, f) ==
  IF review_comments_msg = <<>> THEN <<>>
  ELSE (IF review_comments_msg[1][1] = f
        THEN <<review_comments_msg[1][2]>> ELSE <<>>)
       \o MsgsOf(Tail(review_comments_msg), f)

\* C1: the file records a row emits are exactly the keys of its 'file versions':
\* one record per key, none for a path named only in 'files changes' or in
\* 'review comments msg', and none at all when 'file versions' is empty.
C1_RecordsAreFileVersionKeys ==
  Transformed =>
    /\ Len(Emitted) = Len(LastFileVersions)
    /\ {Emitted[i]["file name"] : i \in DOMAIN Emitted} = LastKeys

\* C2: a row with file versions {f1:v1, ..., fn:vn} yields exactly n records;
\* record i has file name fi, versions vi and the parent's repo name, and all
\* carry the parent's decoded pull-request columns and the same
\* (num_passed, num_failed).
C2_OneRecordPerFileWithParentValues ==
  Transformed =>
    /\ Len(Emitted) = Len(LastFileVersions)
    /\ \A i \in DOMAIN Emitted :
         /\ Emitted[i]["file name"] = LastFileVersions[i][1]
         /\ Emitted[i]["file versions"] = LastFileVersions[i][2]
         /\ Emitted[i]["repo name"] = LastDatum["repo name"].val
         /\ \A c \in DOMAIN PULL_REQUEST_RELATED_COLUMNS :
              Emitted[i][c] = LastDatum[c].val
         /\ Emitted[i]["check run results"] = Emitted[1]["check run results"]

\* the records emitted for the keys of 'file versions' do carry the parent's
\* values: what C2 says of the n records, without the count
C2_NamedRecordsCarryParentValues ==
  Transformed =>
    \A i \in DOMAIN LastFileVersions :
      /\ i \in DOMAIN Emitted
      /\ Emitted[i]["file name"] = LastFileVersions[i][1]
      /\ Emitted[i]["file versions"] = LastFileVersions[i][2]
      /\ Emitted[i]["repo name"] = LastDatum["repo name"].val
      /\ \A c \in DOMAIN PULL_REQUEST_RELATED_COLUMNS :
           Emitted[i][c] = LastDatum[c].val
      /\ Emitted[i]["check run results"] =
           <<Cardinality({k \in DOMAIN LastDatum["check run results"].val :
                            LastDatum["check run results"].val[k] = "passed"}),
             Cardinality({k \in DOMAIN LastDatum["check run results"].val :
                            LastDatum["check run results"].val[k] = "failed"})>>

\* the record emitted for the i-th key of 'file versions'
RecordOfKey(i) == Emitted[i]

\* the entries of 'files changes' that name file f
EntriesOf(f) == {k \in DOMAIN LastFilesChanges : LastFilesChanges[k][1] = f}

Triple(k) ==
  <<LastFilesChanges[k][2], LastFilesChanges[k][3], LastFilesChanges[k][4]>>

C4_CountsPassedAndFailed ==
  cr_returned # <<>> =>
    LET p == Cardinality({i \in DOMAIN cr_check_run_results :
                            cr_check_run_results[i] = "passed"})
        f == Cardinality({i \in DOMAIN cr_check_run_results :
                            cr_check_run_results[i] = "failed"})
    IN /\ cr_returned[1] = <<p, f>>
       /\ cr_returned[1][1] + cr_returned[1][2] <= Len(cr_check_run_results)
       /\ (cr_returned[1][1] + cr_returned[1][2] = Len(cr_check_run_results))
            <=> (\A i \in DOMAIN cr_check_run_results :
                   cr_check_run_results[i] \in {"passed", "failed"})

\* the list of the test: ['passed', 'failed', 'none', 'passed'] gives (2, 1)
C4_Witness ==
  /\ cr_check_run_results = <<"passed", "failed", "none", "passed">>
  /\ cr_returned = <<(<<2, 1>>)>>

\* C5: the 'review comments msg' of a file's record is the subsequence, in
\* input order, of the texts addressed to that file; a pair whose path is no
\* key of 'file versions' is dropped: its text is in no emitted record.
C5_CommentsRoutedOrDropped ==
  Transformed =>
    /\ \A i \in DOMAIN LastFileVersions :
         MsgsOf(LastReviewComments, LastFileVersions[i][1]) # <<>> =>
           /\ "review comments msg" \in DOMAIN RecordOfKey(i)
           /\ RecordOfKey(i)["review comments msg"] =
                MsgsOf(LastReviewComments, LastFileVersions[i][1])
    /\ \A i \in DOMAIN Emitted :
         "review comments msg" \in DOMAIN Emitted[i] =>
           /\ Emitted[i]["file name"] \in LastKeys
           /\ Emitted[i]["review comments msg"] =
                MsgsOf(LastReviewComments, Emitted[i]["file name"])

\* what C5 says of the files that are keys of 'file versions'
C5_CommentsOfNamedFiles ==
  Transformed =>
    \A i \in DOMAIN LastFileVersions :
      LET msgs == MsgsOf(LastReviewComments, LastFileVersions[i][1])
      IN IF msgs = <<>>
         THEN "review comments msg" \notin DOMAIN RecordOfKey(i)
         ELSE RecordOfKey(i)["review comments msg"] = msgs

(***************************************************************************)
(* The claims about DataAggregator.                                        *)
(***************************************************************************)
Saved == ag_status = "saved"

FileVersionKeys(datum) ==
  {datum["file versions"].val[i][1] : i \in DOMAIN datum["file versions"].val}

\* the rows of the table whose 'file versions' names file f, in table order
RECURSIVE Contributing(_, _)
Contributing(rows, f) ==
  IF rows = <<>> THEN <<>>
  ELSE (IF f \in FileVersionKeys(rows[1]) THEN <<rows[1]>> ELSE <<>>)
       \o Contributing(Tail(rows), f)

\* the columns that hold one value per pull request
ScalarPrColumns == {c \in DOMAIN AGG_PR_LEVEL_COLUMNS : ~IsList(c)}

\* C8: the output has exactly one row per file with at least one contributing
\* file record and no row for a file with none: every row has at least one
\* contributing pull request.
C8_RowsHaveContributors ==
  Saved =>
    /\ \A i, j \in DOMAIN ag_df :
         ag_df[i]["file name"] = ag_df[j]["file name"] => i = j
    /\ {ag_df[i]["file name"] : i \in DOMAIN ag_df} =
         {f \in Files : Contributing(ag_pr_level_data, f) # <<>>}
    /\ \A i \in DOMAIN ag_df :
         /\ "pull request id" \in DOMAIN ag_df[i]
         /\ Len(ag_df[i]["pull request id"]) >= 1

\* every file with a contributing pull request does get exactly one row
C8_ContributedFilesHaveOneRow ==
  Saved =>
    \A f \in Files :
      Contributing(ag_pr_level_data, f) # <<>> =>
        Cardinality({i \in DOMAIN ag_df : ag_df[i]["file name"] = f}) = 1

\* the entries of the files changes lists of all rows that name file f
RECURSIVE ChangesOf(_, _)
ChangesOf(rows, f) ==
  IF rows = <<>> THEN <<>>
  ELSE LET fc == rows[1]["files changes"].val
       IN SelectSeq([k \in DOMAIN fc |-> <<fc[k][1], <<fc[k][2], fc[k][3], fc[k][4]>>>>],
                    LAMBDA e : e[1] = f)
          \o ChangesOf(Tail(rows), f)

RECURSIVE Flatten(_, _)
Flatten(rows, c) ==
  IF rows = <<>> THEN <<>>
  ELSE (IF rows[1][c].nan THEN <<>> ELSE rows[1][c].val)
       \o Flatten(Tail(rows), c)

RECURSIVE FlattenMsgsOf(_, _)
FlattenMsgsOf(rows, f) ==
  IF rows = <<>> THEN <<>>
  ELSE MsgsOf(rows[1]["review comments msg"].val, f)
       \o FlattenMsgsOf(Tail(rows), f)

\* the rows on which nothing but a blank comment or reviewer list is wrong
OnlyBlankLists(rows) ==
  \A i \in DOMAIN rows :
    /\ ~Raises("eval", rows[i]["check run results"])
    /\ \A c \in DOMAIN AGG_FILE_LEVEL_COLUMNS :
         ~Raises(AGG_FILE_LEVEL_COLUMNS[c], rows[i][c])
    /\ \A c \in DOMAIN AGG_PR_LEVEL_COLUMNS :
         Raises(AGG_PR_LEVEL_COLUMNS[c], rows[i][c]) =>
           rows[i][c].nan /\ IsList(c)

\* C10: for the comment and approved-reviewer columns the aggregated value is
\* the one-level concatenation, in record order, of the per-record lists; an
\* empty list contributes nothing and an absent value is skipped.
C10_FlattenSkipsAbsent ==
  OnlyBlankLists(ag_pr_level_data) =>
    /\ ag_status # "raised"
    /\ Saved =>
         \A i \in DOMAIN ag_df :
           /\ \A c \in {"issue comments msg", "approved reviewers"} :
                ListOf(ag_df[i], c) =
                  Flatten(Contributing(ag_pr_level_data, ag_df[i]["file name"]), c)
           /\ ListOf(ag_df[i], "review comments msg") =
                FlattenMsgsOf(ag_pr_level_data, ag_df[i]["file name"])

\* what C10 says of the tables without a blank cell
C10_FlattenOfPresentLists ==
  Saved =>
    \A i \in DOMAIN ag_df :
      /\ \A c \in {"issue comments msg", "approved reviewers"} :
           ListOf(ag_df[i], c) =
             Flatten(Contributing(ag_pr_level_data, ag_df[i]["file name"]), c)
      /\ ListOf(ag_df[i], "review comments msg") =
           FlattenMsgsOf(ag_pr_level_data, ag_df[i]["file name"])

(***************************************************************************)
(* The claims about the historical window.                                 *)
(***************************************************************************)
\* the calendar days the window covers
DaysCovered == DayOf(win_start)..DayOf(win_end)

\* C6: a record is included iff start <= closed timestamp <= end, start being
\* 00:00:00 of day d - (r+1) and end 23:59:59 of day d - 1, both inclusive;
\* no record closed on day d or later is included; for d = 2020-08-01 and
\* r = 30, 2020-07-01T23:59:59 is included and 2020-08-01T00:00:00 is not.
C6_IncludedIffInWindow ==
  win_status = "scanned" =>
    /\ win_start = (DayOf(win_date) - (win_range + 1)) * SecondsPerDay
    /\ win_end = (DayOf(win_date) - 1) * SecondsPerDay + 23 * 3600 + 59 * 60 + 59
    /\ win_included <=> (win_start <= win_closed /\ win_closed <= win_end)
    /\ win_included <=>
         DayOf(win_closed) \in
           (DayOf(win_date) - (win_range + 1))..(DayOf(win_date) - 1)
    /\ DayOf(win_closed) >= DayOf(win_date) => ~win_included
    /\ StrfDate(win_end) = StrfDate(MinusDays(win_date, 1))
    /\ (StrfDate(win_date) = <<8, 1>> /\ win_range = 30) =>
         /\ StrfDate(win_end) = <<7, 31>>
         /\ win_closed = FromIsoFormat(7, 1, 23, 59, 59) => win_included
         /\ win_closed = FromIsoFormat(8, 1, 0, 0, 0) => ~win_included

\* the record closed at 2020-07-01T23:59:59 in the window of 2020-08-01, 30
C6_Witness ==
  /\ win_status = "scanned"
  /\ win_date = FromIsoFormat(8, 1, 0, 0, 0)
  /\ win_range = 30
  /\ win_closed = FromIsoFormat(7, 1, 23, 59, 59)
  /\ win_included

\* C7 as stated: the window of (d, r) covers exactly r calendar days, the
\* last of which is the day before d.
C7_WindowCoversRangeDays ==
  win_status # "new" =>
    /\ Cardinality(DaysCovered) = win_range
    /\ DayOf(win_end) = DayOf(win_date) - 1

\* C7 amended: the window of (d, r) covers exactly r + 1 calendar days, from
\* the day r + 1 days before d to the day before d.
C7_WindowCoversRangePlusOneDays ==
  win_status # "new" =>
    /\ Cardinality(DaysCovered) = win_range + 1
    /\ DayOf(win_start) = DayOf(win_date) - (win_range + 1)
    /\ DayOf(win_end) = DayOf(win_date) - 1

\* the window of 2020-08-01T00:52:38 and 30: the 31 days of July
C7_Witness ==
  /\ win_status = "open"
  /\ win_date = FromIsoFormat(8, 1, 0, 52, 38)
  /\ win_range = 30
  /\ StrfDate(win_start) = <<7, 1>>
  /\ StrfDate(win_end) = <<7, 31>>
  /\ Cardinality(DaysCovered) = 31

(***************************************************************************)
(* The claims about remove_nan.                                            *)
(***************************************************************************)
\* the positions of the entries of lst that are neither None nor NaN
Present(lst) == {i \in DOMAIN lst : lst[i][1] = "num"}

\* C11: removing the absent entries of a list yields exactly the subsequence
\* of its entries that are neither None nor NaN, in their order: no entry
\* becomes 0, the entries 0 are kept; [1, 2, None, NaN, 5] gives [1, 2, 5].
C11_RemoveNanIsSubsequence ==
  rn_results # <<>> =>
    LET out == rn_results[1]
    IN /\ Len(out) = Cardinality(Present(rn_lst))
       /\ \E pos \in [DOMAIN out -> Present(rn_lst)] :
            /\ \A i, j \in DOMAIN out : i < j => pos[i] < pos[j]
            /\ \A i \in DOMAIN out : out[i] = rn_lst[pos[i]]
       /\ Cardinality({i \in DOMAIN out : out[i] = Num(0)}) =
            Cardinality({i \in DOMAIN rn_lst : rn_lst[i] = Num(0)})
       /\ rn_lst = <<Num(1), Num(2), NoneEntry, NaNEntry, Num(5)>> =>
            out = <<Num(1), Num(2), Num(5)>>

\* remove_nan has run on [1, 2, None, NaN, 5]
C11_Witness ==
  /\ rn_lst = <<Num(1), Num(2), NoneEntry, NaNEntry, Num(5)>>
  /\ rn_results = <<<<Num(1), Num(2), Num(5)>>>>

(***************************************************************************)
(* The claims about the 'author' lists of DataAggregator.                  *)
(***************************************************************************)
\* C12: in every aggregated row the 'author' list has no duplicates: a file
\* touched by k pull requests of one author has one entry for that author,
\* so the length of the list, which 'author count' is, is the number of
\* distinct authors and not the number of contributing pull requests.
C12_AuthorsHaveNoDuplicates ==
  Saved =>
    \A i \in DOMAIN ag_df :
      /\ Injective(ListOf(ag_df[i], "author"))
      /\ Len(ListOf(ag_df[i], "author")) =
           Cardinality(Range(ListOf(ag_df[i], "author")))

\* the 'author' list has one entry per contributing pull request, in order
C12_OneAuthorPerContributor ==
  Saved =>
    \A i \in DOMAIN ag_df :
      ListOf(ag_df[i], "author") =
        [k \in DOMAIN Contributing(ag_pr_level_data, ag_df[i]["file name"]) |->
           Contributing(ag_pr_level_data, ag_df[i]["file name"])[k]["author"].val]

(***************************************************************************)
(* The claims about FeatureExtractor.                                      *)
(***************************************************************************)
Extracted == fe_status = "extracted"

\* the number of entries of a list cell, 0 for NaN
CountOf(cell) == IF cell.nan THEN 0 ELSE Len(cell.val)

\* C13: the 'review comments msg avg count' of a row is the number of
\* messages of its review-comment list divided by the length of the same
\* row's pull-request-id list, 0 when that list is empty; it depends on no
\* other row (2 comments over 5 contributing pull requests give 0.4).
C13_AvgCountOverOwnPullRequests ==
  Extracted =>
    \A i \in DOMAIN fe_file_level_data :
      fe_file_level_features[i]["review comments msg avg count"] =
        IF CountOf(fe_file_level_data[i]["pull request id"]) = 0
        THEN FloatZero
        ELSE TrueDiv(CountOf(fe_file_level_data[i]["review comments msg"]),
                     CountOf(fe_file_level_data[i]["pull request id"]))

\* what extract_features computes: the number of messages of the row over
\* the number of rows of the table
C13_AvgCountOverRowsOfTable ==
  Extracted =>
    \A i \in DOMAIN fe_file_level_data :
      fe_file_level_features[i]["review comments msg avg count"] =
        TrueDiv(CountOf(fe_file_level_data[i]["review comments msg"]),
                Len(fe_file_level_data))

(***************************************************************************)
(* The claims about the reduction functions.                               *)
(***************************************************************************)
Reduced == rd_out # <<>>

EmptyListCell == Cell("literal", <<>>)

\* C14: every reduction function returns on NaN exactly the value it returns
\* on the empty list, and that value is 0; none raises on either.
C14_AbsentIsEmptyIsZero ==
  (Reduced /\ (rd_lst.nan \/ rd_lst = EmptyListCell)) =>
    /\ rd_kind = "numbers" =>
         /\ rd_out[1] = [count |-> 0, avg |-> FloatZero, sum |-> 0,
                         nonzero_count |-> 0, nonzero_avg |-> FloatZero,
                         nonzero_sum |-> 0]
         /\ rd_out[1] = [count |-> compute_count(EmptyListCell),
                         avg |-> compute_avg(EmptyListCell),
                         sum |-> compute_sum(EmptyListCell),
                         nonzero_count |-> compute_nonzero_count(EmptyListCell),
                         nonzero_avg |-> compute_nonzero_avg(EmptyListCell),
                         nonzero_sum |-> compute_nonzero_sum(EmptyListCell)]
    /\ rd_kind = "check run results" =>
         \A i \in 0..1 :
           /\ rd_out[1].total[i] = 0
           /\ rd_out[1].avg[i] = FloatZero
           /\ rd_out[1].total[i] = compute_total_check_runs(EmptyListCell, i)
           /\ rd_out[1].avg[i] = compute_avg_check_runs(EmptyListCell, i)
    /\ rd_kind = "files changes" =>
         \A i \in 0..2 :
           /\ rd_out[1].total[i] = 0
           /\ rd_out[1].avg[i] = FloatZero
           /\ rd_out[1].total[i] = compute_total_file_changes(EmptyListCell, i)
           /\ rd_out[1].avg[i] = compute_avg_file_changes(EmptyListCell, i)
    /\ rd_kind = "review comments msg" =>
         /\ rd_out[1].avg_count = FloatZero
         /\ rd_out[1].avg_count = compute_avg_count(EmptyListCell, rd_pr_ids)

\* the functions of a column of numbers have run on NaN
C14_Witness ==
  /\ Reduced
  /\ rd_kind = "numbers"
  /\ rd_lst.nan
  /\ rd_out[1].count = 0
  /\ rd_out[1].nonzero_avg = FloatZero

\* the entries of a list that are not 0
Nonzero(lst) == SelectSeq(lst, LAMBDA e : e # 0)

\* C15: compute_nonzero_count is the number of entries different from 0,
\* compute_nonzero_sum their sum, compute_nonzero_avg that sum divided by
\* that count; without a nonzero entry the three are 0;
\* [1,2,0,1,6,0,2] gives 5, 12 and 12/5.
C15_NonzeroReductions ==
  (Reduced /\ rd_kind = "numbers" /\ ~rd_lst.nan) =>
    /\ rd_out[1].nonzero_count =
         Cardinality({i \in DOMAIN rd_lst.val : rd_lst.val[i] # 0})
    /\ rd_out[1].nonzero_sum = Sum(Nonzero(rd_lst.val))
    /\ rd_out[1].nonzero_avg =
         IF Nonzero(rd_lst.val) = <<>> THEN FloatZero
         ELSE TrueDiv(Sum(Nonzero(rd_lst.val)), Len(Nonzero(rd_lst.val)))
    /\ Nonzero(rd_lst.val) = <<>> =>
         /\ rd_out[1].nonzero_count = 0
         /\ rd_out[1].nonzero_sum = 0
         /\ rd_out[1].nonzero_avg = FloatZero
    /\ rd_lst.val = <<1, 2, 0, 1, 6, 0, 2>> =>
         /\ rd_out[1].nonzero_count = 5
         /\ rd_out[1].nonzero_sum = 12
         /\ rd_out[1].nonzero_avg = [num |-> 12, den |-> 5]

\* the functions have run on [1,2,0,1,6,0,2]
C15_Witness ==
  /\ Reduced
  /\ rd_kind = "numbers"
  /\ rd_lst = Cell("literal", <<1, 2, 0, 1, 6, 0, 2>>)
  /\ rd_out[1].nonzero_avg = [num |-> 12, den |-> 5]

\* the components at a Python index of the tuples of a list
ComponentsAt(lst, index) == [k \in DOMAIN lst |-> lst[k].val[index + 1]]

\* C16: for a list of tuples and a valid index i the total is the sum of
\* t[i] over the tuples and the average that total divided by the number of
\* tuples, those whose component is 0 included; both are 0 for the empty
\* list; [(1,0),(2,8),(5,3),(0,0)] gives the averages 2.0 and 2.75.
C16_ComponentReductions ==
  (Reduced /\ rd_kind \in {"check run results", "files changes"} /\ ~rd_lst.nan) =>
    /\ \A i \in DOMAIN rd_out[1].total :
         /\ rd_out[1].total[i] = Sum(ComponentsAt(rd_lst.val, i))
         /\ rd_out[1].avg[i] =
              IF rd_lst.val = <<>> THEN FloatZero
              ELSE TrueDiv(Sum(ComponentsAt(rd_lst.val, i)), Len(rd_lst.val))
         /\ rd_lst.val = <<>> => rd_out[1].total[i] = 0
    /\ rd_kind = "check run results" => DOMAIN rd_out[1].total = 0..1
    /\ rd_kind = "files changes" => DOMAIN rd_out[1].total = 0..2
    /\ ComponentsAt(rd_lst.val, 0) = <<1, 2, 5, 0>>
         /\ ComponentsAt(rd_lst.val, 1) = <<0, 8, 3, 0>> =>
         /\ rd_out[1].avg[0] = [num |-> 2, den |-> 1]
         /\ rd_out[1].avg[1] = [num |-> 11, den |-> 4]

\* the functions have run on [(1,0),(2,8),(5,3),(0,0)]
C16_Witness ==
  /\ Reduced
  /\ rd_kind = "check run results"
  /\ ~rd_lst.nan
  /\ ComponentsAt(rd_lst.val, 0) = <<1, 2, 5, 0>>
  /\ ComponentsAt(rd_lst.val, 1) = <<0, 8, 3, 0>>
  /\ rd_out[1].avg[1] = [num |-> 11, den |-> 4]

\* compute_sum is the sum of all entries, compute_avg that sum divided by
\* the length, compute_count the length; all three are 0 on the empty list
SumAvgCount ==
  /\ rd_out[1].sum = Sum(rd_lst.val)
  /\ rd_out[1].count = Len(rd_lst.val)
  /\ rd_out[1].avg =
       IF rd_lst.val = <<>> THEN FloatZero
       ELSE TrueDiv(Sum(rd_lst.val), Len(rd_lst.val))
  /\ rd_lst.val = <<>> =>
       rd_out[1].sum = 0 /\ rd_out[1].count = 0 /\ rd_out[1].avg = FloatZero

ReductionSuffixes ==
  {"count", "total", "avg", "passed avg", "failed avg", "passed count",
   "failed count", "avg additions", "avg deletions", "avg changes",
   "total additions", "total deletions", "total changes", "avg count"}

\* C18: every feature column extract_features writes is named
\* '<source column> <reduction suffix>', and every name the loader reads from
\* a feature table, each entry of COMMON_FILE_LEVEL_FEATURES and 'file name',
\* is a column extract_features produces under exactly that name.
C18_FeatureNamesMatchLoader ==
  Extracted =>
    \A i \in DOMAIN fe_file_level_features :
      /\ \A name \in DOMAIN fe_file_level_features[i] \ {"repo name", "file name"} :
           \E column \in DOMAIN fe_file_level_data[i] \ {"repo name", "file name"} :
           \E suffix \in ReductionSuffixes :
             name = column \o " " \o suffix
      /\ "file name" \in DOMAIN fe_file_level_features[i]
      /\ fe_file_level_features[i]["file name"] = fe_file_level_data[i]["file name"]
      /\ \A k \in DOMAIN COMMON_FILE_LEVEL_FEATURES :
           COMMON_FILE_LEVEL_FEATURES[k] \in DOMAIN fe_file_level_features[i]
      /\ GetFileData(fe_file_level_features[i]) # <<>>

\* a feature table of two rows the loader can read
C18_Witness ==
  /\ Extracted
  /\ Len(fe_file_level_features) = 2
  /\ "check run results passed avg" \in DOMAIN fe_file_level_features[2]
  /\ Len(GetFileData(fe_file_level_features[2])[1]) = Len(COMMON_FILE_LEVEL_FEATURES)

(***************************************************************************)
(* The claims about the stored text of the nested values.                  *)
(***************************************************************************)
\* C19: for every value of a supported nested column type (list of scalars,
\* of pairs, of triples, path to count mapping), the empty list and the empty
\* mapping included, decoding the stored text of the value gives the value.
C19_DecodeOfEncodeIsValue ==
  (cd_decoded # <<>> /\ cd_value.t \in {"list", "dict"}) =>
    /\ cd_decoded[1].ok
    /\ cd_decoded[1].val = cd_value

\* a list with a pair whose message holds both quotes was stored and read
C19_Witness ==
  /\ cd_decoded # <<>>
  /\ cd_value.t = "list"
  /\ \E i \in DOMAIN cd_value.items :
       /\ cd_value.items[i].t = "tuple"
       /\ cd_value.items[i].items[2] = StrV(<<"'", "\"">>)
  /\ cd_stored[1][1] = "\""
  /\ cd_decoded[1].val = cd_value

\* the columns of the last row iterated whose stored value is absent
AbsentColumns == {c \in DOMAIN LastDatum : LastDatum[c].nan}

\* C20: decoding an absent stored value of a row neither raises nor gives the
\* empty list, for every column, 'files changes' and 'num line changes' of a
\* pull request without a retrievable file list included: the row with such
\* values is transformed without an exception.
C20_AbsentValueDecodesToMarker ==
  (dt_pr_level_data # <<>> /\ AbsentColumns # {}) =>
    /\ dt_status = "running"
    /\ \A c \in AbsentColumns \cap DOMAIN FILE_RELATED_COLUMNS :
         ~Raises(FILE_RELATED_COLUMNS[c], LastDatum[c])
    /\ \A c \in AbsentColumns \cap DOMAIN PULL_REQUEST_RELATED_COLUMNS :
         ~Raises(PULL_REQUEST_RELATED_COLUMNS[c], LastDatum[c])

\* what the transformer does with such a row: int(nan) and eval(nan) raise,
\* the exception escapes transform and no record of the row is appended
C20_AbsentValueRaises ==
  (dt_pr_level_data # <<>> /\ AbsentColumns # {}) =>
    /\ dt_status = "raised"
    /\ Emitted = <<>>
    /\ Raises(FILE_RELATED_COLUMNS["files changes"], LastDatum["files changes"])
    /\ Raises(PULL_REQUEST_RELATED_COLUMNS["num line changes"],
              LastDatum["num line changes"])

(***************************************************************************)
(* The claims about texts that are no literal of the column's shape.       *)
(***************************************************************************)
\* the text of the column of the row read is no literal of its declared shape
Malformed ==
  LET r == EvalText(mc_datum[1][mc_column].val)
  IN ~r.ok \/ ~DeclaredShape(mc_column, r.val)

\* C21: when the stored text of a nested column is no syntactically valid
\* literal of the column's declared shape, decoding fails with an error for
\* the row, and no file record of the row is emitted with the column replaced
\* by an empty or default value.
C21_MalformedColumnRaises ==
  (mc_status \in {"raised", "transformed"} /\ Malformed) =>
    /\ mc_status = "raised"
    /\ mc_file_level_data = <<>>

\* what the transformer does: a text eval cannot parse raises and no record of
\* the row is appended
C21_UnparsableTextRaises ==
  (mc_status \in {"raised", "transformed"}
     /\ ~EvalText(mc_datum[1][mc_column].val).ok) =>
    /\ mc_status = "raised"
    /\ mc_file_level_data = <<>>

(***************************************************************************)
(* The claims about DataLoader.                                            *)
(***************************************************************************)
\* the ids of the pull requests of the table the loader iterated
LoadedIds ==
  {ld_pr_level_signals[i]["pull request id"].val : i \in DOMAIN ld_pr_level_signals}

SignalsOf(id) ==
  ld_pr_level_signals[CHOOSE i \in DOMAIN ld_pr_level_signals :
                        ld_pr_level_signals[i]["pull request id"].val = id]

\* the pull request touches at least one file
TouchesFiles(id) ==
  /\ ~SignalsOf(id)["files changes"].nan
  /\ SignalsOf(id)["files changes"].val # <<>>

\* the feature file of the closed date of the pull request exists
HasFeatureFile(id) ==
  ClosedDate(SignalsOf(id)["pull request closed time"].val) \in ld_exists

\* the training rows of the pull request: those that carry its review time
TrainingRowsOf(id) ==
  {k \in DOMAIN ld_training_data : ld_training_data[k][1][1] = ReviewTimeOf(id)}

\* the pull request has no pull request features and no training row
IsSkipped(id) ==
  /\ id \in DOMAIN ld_cl_data_dict.val =>
       ld_cl_data_dict.val[id].pr_level_features = <<>>
  /\ TrainingRowsOf(id) = {}

\* the iteration of the row of the pull request raised
RaisedOn(id) ==
  /\ ld_status = "raised"
  /\ ld_pr_level_signals[Len(ld_pr_level_signals)]["pull request id"].val = id

\* what the claim says of the pull requests of the table
SkippedOrOneRow ==
  \A id \in LoadedIds :
    /\ ~HasFeatureFile(id) => (IsSkipped(id) /\ ~RaisedOn(id))
    /\ (HasFeatureFile(id) /\ TouchesFiles(id)) => Cardinality(TrainingRowsOf(id)) = 1

\* C22: a pull request whose closed date has no feature file is skipped
\* without raising (no pull request features, no training row), and every pull
\* request whose feature file exists and that touches a file yields exactly
\* one training row, whatever the table.
C22_SkippedOrOneRow ==
  (ld_status \in {"loaded", "raised"}) => SkippedOrOneRow

\* C22, for the tables load_data gets through: a run raises only on a row
\* whose 'files changes' is blank, never for a missing feature file, and a run
\* that does not raise skips the pull requests without a feature file and
\* emits one row for each of the others that touches a file.
C22_SkippedOrOneRowUnlessBlank ==
  /\ ld_status = "raised" =>
       ld_pr_level_signals[Len(ld_pr_level_signals)]["files changes"].nan
  /\ ld_status = "loaded" =>
       /\ \A i \in DOMAIN ld_pr_level_signals :
            ~ld_pr_level_signals[i]["files changes"].nan
       /\ SkippedOrOneRow

\* some row of the table names the pull request as the one it reverts
IsRevertedInTable(id) ==
  \E i \in DOMAIN ld_pr_level_signals :
    ld_pr_level_signals[i]["reverted pull request id"].val = id

\* the pull requests of the table that got pull request features
Processed == {id \in LoadedIds : TouchesFiles(id) /\ HasFeatureFile(id)}

\* C29: the 'reverted' label of the training row of a pull request P is True
\* iff some row of the table has 'reverted pull request id' = P, whether the
\* reverting row comes before or after P and whether or not the reverting
\* pull request is itself skipped; a reverted id that matches no processed
\* pull request yields no training row.
C29_RevertedIffNamedByARow ==
  ld_status = "loaded" =>
    /\ \A id \in LoadedIds : \A k \in TrainingRowsOf(id) :
         ld_training_data[k][3] = IsRevertedInTable(id)
    /\ \A k \in DOMAIN ld_training_data : \E id \in Processed : k \in TrainingRowsOf(id)
    /\ Len(ld_training_data) = Cardinality(Processed)

\* a table was loaded in which a processed pull request is reverted by a later
\* row and another by an earlier row, a reverting pull request is itself
\* skipped, and a row reverts a pull request that is not in the table
C29_Witness ==
  /\ ld_status = "loaded"
  /\ \E p, q \in Processed :
       /\ (p + 1) \in LoadedIds
       /\ SignalsOf(p + 1)["reverted pull request id"].val = p
       /\ ~(p + 1) \in Processed
       /\ ld_training_data[CHOOSE k \in TrainingRowsOf(p) : TRUE][3]
       /\ q > 1
       /\ SignalsOf(q - 1)["reverted pull request id"].val = q
       /\ ld_training_data[CHOOSE k \in TrainingRowsOf(q) : TRUE][3]
  /\ \E id \in LoadedIds : ~IsRevertedInTable(id) /\ id \in Processed
  /\ 9 \in DOMAIN ld_cl_data_dict.val

(***************************************************************************)
(* The claims about DataCollector._get_check_run_results.                  *)
(***************************************************************************)
\* the status the claim gives the response of a commit
ClaimedStatus(response) ==
  IF response.total_count = 0 THEN "none"
  ELSE IF \E i \in DOMAIN response.check_runs :
            response.check_runs[i] \in
              {"failure", "cancelled", "timed_out", "action_required"}
  THEN "failed"
  ELSE "passed"

\* the responses that are not empty, in commit order
NonEmptyResponses == SelectSeq(ck_responses, LAMBDA r : ~r.empty)

\* C23: _get_check_run_results returns one status per commit with a non-empty
\* response, in commit order: 'none' when total_count is 0, 'failed' when a
\* check run of the commit concluded failure, cancelled, timed_out or
\* action_required, 'passed' otherwise.
C23_StatusPerCommit ==
  ck_status = "returned" =>
    ck_results = [i \in DOMAIN NonEmptyResponses |-> ClaimedStatus(NonEmptyResponses[i])]

\* what the function does return: one entry per non-empty response, 'none'
\* when total_count is 0 and 'passed' for every other commit, failed or not
C23_NeverFailed ==
  ck_status = "returned" =>
    ck_results = [i \in DOMAIN NonEmptyResponses |->
                    IF NonEmptyResponses[i].total_count = 0 THEN "none" ELSE "passed"]

(***************************************************************************)
(* The claims about get_all_pull_requests and get_pull_requests_by_page.   *)
(***************************************************************************)
\* the first page whose response is empty
FirstEmptyPage ==
  CHOOSE k \in 1..(Len(ap_responses) + 1) :
    /\ SendRequest(ap_responses, k) = <<>>
    /\ \A j \in 1..(k - 1) : ap_responses[j] # <<>>

\* merged, and closed between the dates, both included
IsWanted(pull_request_info) ==
  /\ pull_request_info.merged_at # <<>>
  /\ to_timestamp(START_DATE2) <= to_timestamp(pull_request_info.closed_at)
  /\ to_timestamp(pull_request_info.closed_at) <= to_timestamp(END_DATE2)

\* the wanted pull requests of pages 1 to k, in page order
RECURSIVE WantedUpTo(_)
WantedUpTo(k) ==
  IF k = 0 THEN <<>>
  ELSE WantedUpTo(k - 1) \o SelectSeq(ap_responses[k], IsWanted)

\* C24 (what is returned): get_all_pull_requests returns, in page order, the
\* filtered pull requests of every page before the first page whose response
\* is empty; a page all of whose pull requests are filtered out adds nothing
\* and does not stop the loop, which stops at the first empty response.
PagesBeforeFirstEmpty ==
  /\ ap_status = "running" =>
       /\ ap_page <= FirstEmptyPage
       /\ ap_pull_requests = WantedUpTo(ap_page - 1)
  /\ ap_status = "returned" =>
       /\ ap_page = FirstEmptyPage
       /\ ap_pull_requests = WantedUpTo(FirstEmptyPage - 1)

\* C24: the loop returns the concatenation of the filtered pages that precede
\* the first empty response, and it does return: it terminates when that
\* response is reached.
C24_AllPagesUntilEmptyResponse ==
  [](PagesBeforeFirstEmpty) /\ <>(ap_status = "returned")

\* the loop went through a page of which nothing was kept and, after it, a
\* page of which something was kept, and returned
C24_Witness ==
  /\ ap_status = "returned"
  /\ \E j, k \in DOMAIN ap_responses :
       /\ j < k
       /\ k < FirstEmptyPage
       /\ ap_responses[j] # <<>>
       /\ SelectSeq(ap_responses[j], IsWanted) = <<>>
       /\ SelectSeq(ap_responses[k], IsWanted) # <<>>
  /\ ap_pull_requests # <<>>

\* C25: get_pull_requests_by_page returns, in response order, exactly the pull
\* requests of the page that have a merged_at and whose closed_at is between
\* start_date and end_date, both included; open ones and ones closed without
\* a merge are never returned.  (For an empty response it returns None.)
C25_MergedAndClosedInRange ==
  ap_by_page # <<>> =>
    LET json_response ==
          SendRequest(ap_responses,
                      IF ap_status = "returned" THEN ap_page ELSE ap_page - 1)
    IN /\ ap_by_page[1].none <=> json_response = <<>>
       /\ ap_by_page[1].list = SelectSeq(json_response, IsWanted)
       /\ \A i \in DOMAIN ap_by_page[1].list :
            /\ ap_by_page[1].list[i].merged_at # <<>>
            /\ ap_by_page[1].list[i].closed_at # <<>>

\* a page with an open pull request, one closed at start_date and one closed
\* at end_date was filtered: the two closed at the bounds were returned
C25_Witness ==
  /\ ap_by_page # <<>>
  /\ ap_status = "running"
  /\ \E i \in DOMAIN ap_responses[ap_page - 1] :
       ap_responses[ap_page - 1][i].merged_at = <<>>
  /\ {ap_by_page[1].list[i].closed_at : i \in DOMAIN ap_by_page[1].list}
       = {START_DATE2, END_DATE2}

(***************************************************************************)
(* The claims about the page of a DataCollector.                           *)
(***************************************************************************)
\* the page of every DataCollector that exists is at least 1, and a call that
\* raised had a page below 1
PageAtLeastOne ==
  /\ dc_self # <<>> => dc_self[1]._page >= 1
  /\ dc_last.op \in {"init", "set_page"} => (dc_last.raised <=> dc_last.page < 1)
  /\ (dc_last.op = "init" /\ dc_last.raised) => dc_self = <<>>

\* a set_page that raised left every attribute as it was
RejectedSetPageChangesNothing ==
  (dc_last'.op = "set_page" /\ dc_last'.raised /\ dc_calls' # dc_calls)
    => dc_self' = dc_self

\* C26: the page of a DataCollector is at least 1 in every state: the
\* constructor and set_page raise ValueError for a page below 1, and a
\* set_page that raised leaves the page and every other attribute unchanged.
C26_PageAtLeastOne ==
  [](PageAtLeastOne) /\ [][RejectedSetPageChangesNothing]_vars

\* a set_page with a page below 1 was rejected on a collector whose page is
\* above 1
C26_Witness ==
  /\ dc_self # <<>>
  /\ dc_last.op = "set_page"
  /\ dc_last.raised
  /\ dc_last.page < 1
  /\ dc_self[1]._page > 1

(***************************************************************************)
(* The claims about _get_reverted_pull_request_info.                       *)
(***************************************************************************)
\* the word revert, in any letter case, starts at place i of the text
RevertAt(text, i) ==
  /\ i + 5 <= Len(text)
  /\ text[i] \in {"r", "R"}
  /\ text[i + 1] \in {"e", "E"}
  /\ text[i + 2] \in {"v", "V"}
  /\ text[i + 3] \in {"e", "E"}
  /\ text[i + 4] \in {"r", "R"}
  /\ text[i + 5] \in {"t", "T"}

\* a '#<digits>' reference starts at place i of the text
RefAt(text, i) ==
  /\ i + 1 <= Len(text)
  /\ text[i] = "#"
  /\ IsDigit(text[i + 1])

\* the number of the reference at place i: its digits up to place j
RECURSIVE NumberUpTo(_, _, _)
NumberUpTo(text, i, j) ==
  IF j = i THEN 0
  ELSE 10 * NumberUpTo(text, i, j - 1) + DigitValue(text[j])

NumberAt(text, i) ==
  LET j == CHOOSE k \in (i + 1)..Len(text) :
             /\ \A m \in (i + 1)..k : IsDigit(text[m])
             /\ (k = Len(text) \/ ~IsDigit(text[k + 1]))
  IN NumberUpTo(text, i, j)

\* the number of the first reference of a text that has one
FirstNumber(text) ==
  NumberAt(text, CHOOSE i \in DOMAIN text :
                   RefAt(text, i) /\ \A k \in 1..(i - 1) : ~RefAt(text, k))

\* a reverted pull request can be established
Established ==
  LET body == rv_info[1].body
  IN /\ ~body.none
     /\ \E i \in DOMAIN body.text : RevertAt(body.text, i)
     /\ \E i \in DOMAIN body.text : RefAt(body.text, i)
     /\ FirstNumber(body.text) \in DOMAIN rv_repo

\* C27: _get_reverted_pull_request_info returns (0, 0) when no reverted pull
\* request can be established (body empty, no 'revert' in any letter case, no
\* '#<digits>' reference, or the referenced pull request cannot be retrieved);
\* otherwise the number of the first reference with created_at(this) minus
\* created_at(referenced).  A nonzero revert time never comes with id 0.
C27_ZeroUnlessEstablished ==
  rv_result # <<>> =>
    /\ ~Established => rv_result = <<0, 0>>
    /\ Established =>
         LET n == FirstNumber(rv_info[1].body.text)
         IN rv_result = <<n, to_timestamp(rv_info[1].created_at)
                               - to_timestamp(rv_repo[n])>>
    /\ rv_result[2] # 0 => rv_result[1] # 0

\* a body with two references, both retrievable: the first one was returned,
\* with a nonzero revert time
C27_Witness ==
  /\ rv_result # <<>>
  /\ Established
  /\ Len(FindAll(rv_info[1].body.text)) = 2
  /\ {1, 2} \subseteq DOMAIN rv_repo
  /\ rv_result[1] = 1
  /\ rv_result[2] # 0

(***************************************************************************)
(* The claims about the feature extraction of several dates.               *)
(***************************************************************************)
\* the features of the window table of date d, extracted on its own
AloneOn(d) == ExtractFeaturesOf(fx_windows[d])

\* C28: the feature rows of a target date depend only on the window table of
\* that date: no state is carried from one date to another, so in whatever
\* order the dates are taken, or interleaved, the output of each date is that
\* of the date taken alone; the window tables are only read.
FeaturesOfEachDateAlone ==
  \A d \in 1..MaxDates :
    /\ fx_features[d] # <<>> => fx_features[d] = <<AloneOn(d)>>
    /\ fx_extractors[d] # <<>> =>
         fx_extractors[d][1]._file_level_data = fx_windows[d]

IsPrefix(s, t) == Len(s) <= Len(t) /\ SubSeq(t, 1, Len(s)) = s

\* the data rows the run has written so far
WrittenByRun ==
  IF cs_pc = "started" \/ cs_pull_requests.none THEN <<>>
  ELSE [k \in 1..(cs_i - 1) |-> DatumOf(cs_pull_requests.list[k])]

\* one header row, the first; the rows of the earlier runs, then those of
\* the pull requests of this run, in the order they were retrieved
OneHeaderThenData ==
  /\ ~cs_exists => cs_file = <<>>
  /\ cs_exists =>
       /\ cs_file[1] = SIGNALS_HEADER
       /\ \A k \in 2..Len(cs_file) : cs_file[k] # SIGNALS_HEADER
  /\ cs_runs > 0 =>
       cs_file = (IF cs_before = <<>> THEN <<SIGNALS_HEADER>> ELSE cs_before)
                 \o WrittenByRun

\* C30: after any sequence of runs of collect_signals on a repository, one
\* after the other (any pages, any outcome, early returns included), the
\* signals CSV has exactly one header row, which is its first row; a run only
\* appends data rows, one for each collected pull request in the order of
\* retrieval, and never rewrites or removes a row of an earlier run.
C30_OneHeaderAppendOnly ==
  [](OneHeaderThenData) /\ [][IsPrefix(cs_file, cs_file')]_vars

\* a third run appended rows to a file that held the header and rows of
\* earlier runs
C30_Witness ==
  /\ cs_runs = 3
  /\ cs_pc = "idle"
  /\ Len(cs_before) >= 2
  /\ Len(cs_file) > Len(cs_before)
  /\ cs_file[Len(cs_file)] = DatumOf(1)

====
